---- MODULE Spec2Model ----
(***************************************************************************)
(* Model of ena_ons: the derivation rules of regras.py, the basin          *)
(* composers, adicionar_vazoes_artificiais, calcular_ena and agrupar of    *)
(* ena.py, over the station registry of codigos.py.                        *)
(*                                                                         *)
(* Numbers.  A flow is an exact rational <<n, d>> with d > 0 in lowest     *)
(* terms; the missing value (NaN) is <<0, 0>>.  Arithmetic with NaN gives  *)
(* NaN and every comparison with NaN is false, as for Python floats.       *)
(* Floating-point rounding is not modelled.                                *)
(*                                                                         *)
(* Tables.  A column label is Cod(n) for a numeric label and Txt(s) for a  *)
(* text label.  A Series is [nome, vals]; a DataFrame is [index, cols]     *)
(* with cols a sequence of [nome, vals], so that two columns may carry     *)
(* the same label as in pandas.  The time axis is a sequence of dates      *)
(* (day of a non-leap year); every table of one run shares it.             *)
(***************************************************************************)
EXTENDS Integers, Sequences, FiniteSets, TLC

VARIABLES pc, dados, produtibilidade, hidro, op, arg, ret, passos

vars == <<pc, dados, produtibilidade, hidro, op, arg, ret, passos>>

----------------------------------------------------------------------------
(* Exact rational arithmetic with NaN                                      *)

Abs(n) == IF n < 0 THEN -n ELSE n

RECURSIVE GCD(_, _)
GCD(a, b) == IF b = 0 THEN a ELSE GCD(b, a % b)

Norm(n, d) ==
    LET s == IF d < 0 THEN -1 ELSE 1
        g == GCD(Abs(n), Abs(d))
    IN  <<(s * n) \div g, (s * d) \div g>>

NaN == <<0, 0>>
IsNaN(a) == a[2] = 0
R(n) == <<n, 1>>
Frac(n, d) == Norm(n, d)

Add(a, b) ==
    IF IsNaN(a) \/ IsNaN(b) THEN NaN
    ELSE LET g == GCD(a[2], b[2])
         IN  Norm(a[1] * (b[2] \div g) + b[1] * (a[2] \div g), (a[2] \div g) * b[2])

Neg(a) == IF IsNaN(a) THEN NaN ELSE <<-a[1], a[2]>>
Sub(a, b) == Add(a, Neg(b))

Mul(a, b) ==
    IF IsNaN(a) \/ IsNaN(b) THEN NaN
    ELSE LET g1 == GCD(Abs(a[1]), b[2])
             g2 == GCD(Abs(b[1]), a[2])
         IN  Norm((a[1] \div g1) * (b[1] \div g2), (a[2] \div g2) * (b[2] \div g1))

\* a / b for b # 0
Div(a, b) ==
    IF IsNaN(a) \/ IsNaN(b) THEN NaN
    ELSE Mul(a, Norm(b[2], b[1]))

Lt(a, b) == ~IsNaN(a) /\ ~IsNaN(b) /\ Sub(a, b)[1] < 0
Le(a, b) == ~IsNaN(a) /\ ~IsNaN(b) /\ Sub(a, b)[1] <= 0
Gt(a, b) == Lt(b, a)

\* Python's builtin min(a, b) and max(a, b): the first argument unless the
\* second is strictly smaller (larger)
PyMin(a, b) == IF Lt(b, a) THEN b ELSE a
PyMax(a, b) == IF Gt(b, a) THEN b ELSE a

----------------------------------------------------------------------------
(* Labels, Series and DataFrames                                           *)

Cod(n) == [cod |-> n]
Txt(s) == [txt |-> s]
Nenhum == [nenhum |-> TRUE]

Serie(nome, vals) == [nome |-> nome, vals |-> vals]
Frame(index, cols) == [index |-> index, cols |-> cols]
EhSerie(x) == "vals" \in DOMAIN x

TemColuna(df, rot) == \E i \in DOMAIN df.cols : df.cols[i].nome = rot

\* df[rot] for a label carried by one column of df
Coluna(df, rot) ==
    LET i == CHOOSE j \in DOMAIN df.cols : df.cols[j].nome = rot
    IN  Serie(rot, df.cols[i].vals)

\* variant of NomeBin: the result keeps the name of the left operand
NomeBin_esquerda(a, b) == a.nome

\* the name of the result of a binary operation on two Series
NomeBin(a, b) == IF a.nome = b.nome THEN a.nome ELSE Nenhum

SAdd(a, b) == Serie(NomeBin(a, b), [i \in DOMAIN a.vals |-> Add(a.vals[i], b.vals[i])])
SSub(a, b) == Serie(NomeBin(a, b), [i \in DOMAIN a.vals |-> Sub(a.vals[i], b.vals[i])])
\* operations of a Series with a scalar keep the name
SMulK(a, k) == Serie(a.nome, [i \in DOMAIN a.vals |-> Mul(a.vals[i], k)])
SSubK(a, k) == Serie(a.nome, [i \in DOMAIN a.vals |-> Sub(a.vals[i], k)])
SDivK(a, k) == Serie(a.nome, [i \in DOMAIN a.vals |-> Div(a.vals[i], k)])
\* Series.apply(f), vals being the values f gives: the name is kept
SApply(a, vals) == Serie(a.nome, vals)

ColunaNaN(index) == [i \in DOMAIN index |-> NaN]
ColunaConst(index, k) == [i \in DOMAIN index |-> R(k)]

\* pd.DataFrame(s, columns=[rot]): an unnamed Series fills the column; a
\* named one is selected by its name, which leaves NaN when the name differs
DataFrameColunas(s, index, rot) ==
    Frame(index,
          <<[nome |-> rot,
             vals |-> IF s.nome = Nenhum \/ s.nome = rot
                      THEN s.vals ELSE ColunaNaN(index)]>>)

\* pd.DataFrame(lista, index=index, columns=[rot])
DataFrameLista(vals, index, rot) == Frame(index, <<[nome |-> rot, vals |-> vals]>>)

\* pd.DataFrame(s): one column that keeps the name of the Series
DataFrameSerie(s, index) ==
    Frame(index, <<[nome |-> IF s.nome = Nenhum THEN Cod(0) ELSE s.nome,
                    vals |-> s.vals]>>)

\* df.rename({de: para}, axis=1)
Rename(df, de, para) ==
    Frame(df.index,
          [i \in DOMAIN df.cols |->
              IF df.cols[i].nome = de
              THEN [nome |-> para, vals |-> df.cols[i].vals]
              ELSE df.cols[i]])

\* df[rot] = k, for a label df does not have yet
ComColuna(df, rot, vals) ==
    Frame(df.index, Append(df.cols, [nome |-> rot, vals |-> vals]))

----------------------------------------------------------------------------
(* codigos.py: the station registry                                        *)

Codigos ==
    [traicao |-> 104, guarapiranga |-> 117, billings |-> 118,
     billings_artificial |-> 319, billings_pedras |-> 119,
     edgard_souza_com_tributarios |-> 161, edgard_souza_sem_tributarios |-> 164,
     pedras |-> 116, pedreira |-> 109, henry_borden |-> 318,
     barra_bonita |-> 237, barra_bonita_artificial |-> 37,
     bariri |-> 238, bariri_artificial |-> 38,
     ibitinga |-> 239, ibitinga_artificial |-> 39,
     promissao |-> 240, promissao_artificial |-> 40,
     nova_avanhandava |-> 242, nova_avanhandava_artificial |-> 42,
     tres_irmaos |-> 243, tres_irmaos_artificial |-> 43,
     ilha_solteira |-> 34, ilha_solteira_equiv |-> 44,
     jupia |-> 245, jupia_artificial |-> 45,
     porto_primavera |-> 246, porto_primavera_artificial |-> 46,
     itaipu |-> 266, itaipu_artificial |-> 66,
     santa_cecilia |-> 125, bombeamento_santa_cecilia |-> 298,
     anta |-> 129, santana |-> 203, santana_vertimento |-> 304,
     santana_artificial |-> 315, anta_artificial |-> 127,
     tocos |-> 201, vertimento_tocos |-> 317, vigario |-> 316,
     simplicio_artificial |-> 126, ilha_pombos |-> 130,
     ilha_pombos_artificial |-> 299, nilo_pecanha_artificial |-> 131,
     lajes_artificial |-> 132, lajes |-> 202, fontes_artificial |-> 303,
     pereira_passos_artificial |-> 306, camargos |-> 1, itutinga |-> 2,
     moxoto |-> 173, paulo_afonso |-> 175, complexo |-> 176,
     jordao |-> 73, jordao_artificial |-> 70,
     segredo |-> 76, segredo_artificial |-> 75,
     itiquira1 |-> 259, itiquira2 |-> 252,
     pimental |-> 288, belo_monte_artificial |-> 292, pimental_artificial |-> 302]

----------------------------------------------------------------------------
(* regras.py: what each rule's __init__ does, in order.  A step            *)
(* [campo, col] is  self.campo = df[col];  a step [campo, regra] is        *)
(* x = Regra(df).calcular(); self.campo = x["valor"].                      *)

\* variant of the statement pair: the field is read from a measured column
PRegra_medida(campo, regra) == [campo |-> campo, col |-> Codigos.billings]

PCol(campo, col) == [campo |-> campo, col |-> col]
PRegra(campo, regra) == [campo |-> campo, regra |-> regra]

\* the three columns every rule of the Tiete cascade reads after its own
PassosTiete ==
    <<PCol("esouza", Codigos.edgard_souza_com_tributarios),
      PCol("guarapiranga", Codigos.guarapiranga),
      PCol("billings", Codigos.billings)>>

Passos(r) ==
    CASE r = "Traicao" ->
            <<PCol("guarapiranga", Codigos.guarapiranga),
              PCol("billings", Codigos.billings)>>
      [] r = "Pedreira" -> <<PCol("billings", Codigos.billings)>>
      [] r = "BillingsPedras" -> <<PCol("billings", Codigos.billings)>>
      [] r = "Pedras" ->
            <<PCol("billings", Codigos.billings),
              PRegra("billings_pedras", "BillingsPedras")>>
      [] r = "EdgardSouza" -> PassosTiete
      [] r = "HenryBorden" -> <<PRegra("pedras", "Pedras")>> \o PassosTiete
      [] r = "BillingsArtificial" -> PassosTiete
      [] r = "BarraBonitaArtificial" ->
            <<PCol("barra_bonita", Codigos.barra_bonita)>> \o PassosTiete
      [] r = "BaririArtificial" ->
            <<PCol("bariri", Codigos.bariri)>> \o PassosTiete
      [] r = "IbitingaArtificial" ->
            <<PCol("ibitinga", Codigos.ibitinga)>> \o PassosTiete
      [] r = "PromissaoArtificial" ->
            <<PCol("promissao", Codigos.promissao)>> \o PassosTiete
      [] r = "NovaAvanhandavaArtificial" ->
            <<PCol("nova_avanhandava", Codigos.nova_avanhandava)>> \o PassosTiete
      [] r = "TresIrmaosArtificial" ->
            <<PCol("tres_irmaos", Codigos.tres_irmaos)>> \o PassosTiete
      [] r = "IlhaSolteiraEquivalente" ->
            <<PCol("tres_irmaos", Codigos.tres_irmaos),
              PCol("ilha_solteira", Codigos.ilha_solteira)>> \o PassosTiete
      [] r = "JupiaArtificial" ->
            <<PCol("jupia", Codigos.jupia)>> \o PassosTiete
      [] r = "PortoPrimaveraArtificial" ->
            <<PCol("porto_primavera", Codigos.porto_primavera)>> \o PassosTiete
      [] r = "ItaipuArtificial" ->
            <<PCol("itaipu", Codigos.itaipu)>> \o PassosTiete
      [] r = "BombeamentoSantaCecilia" ->
            <<PCol("santa_cecilia", Codigos.santa_cecilia)>>
      [] r = "VertimentoTocos" -> <<PCol("tocos", Codigos.tocos)>>
      [] r = "SantanaNatural" ->
            <<PCol("tocos", Codigos.tocos), PCol("lajes", Codigos.lajes)>>
      [] r = "SantanaArtificial" ->
            <<PRegra("santana", "SantanaNatural"),
              PCol("tocos", Codigos.tocos),
              PRegra("vertimento_tocos", "VertimentoTocos"),
              PRegra("bombeamento_santa_cecilia", "BombeamentoSantaCecilia")>>
      [] r = "VigarioArtificial" ->
            <<PRegra("santana_artificial", "SantanaArtificial")>>
      [] r = "VertimentoSantana" ->
            <<PRegra("santana_artificial", "SantanaArtificial"),
              PRegra("vigario_artificial", "VigarioArtificial")>>
      [] r = "AntaArtificial" ->
            <<PCol("anta", Codigos.anta),
              PRegra("bombeamento_santa_cecilia", "BombeamentoSantaCecilia"),
              PRegra("santana", "SantanaNatural"),
              PRegra("vertimento_santana", "VertimentoSantana")>>
      [] r = "SimplicioArtificial" -> <<PRegra("anta", "AntaArtificial")>>
      [] r = "IlhaPombosArtificial" ->
            <<PCol("ilha_pombos", Codigos.ilha_pombos),
              PRegra("bombeamento_santa_cecila", "BombeamentoSantaCecilia"),
              PRegra("santana", "SantanaNatural"),
              PRegra("vertimento_santana", "VertimentoSantana")>>
      [] r = "NiloPecanhaArtificial" ->
            <<PRegra("vigario_artificial", "VigarioArtificial")>>
      [] r = "LajesArtificial" ->
            <<PCol("tocos", Codigos.tocos), PCol("lajes", Codigos.lajes)>>
      [] r = "FontesArtificial" ->
            <<PRegra("lajes", "LajesArtificial"),
              PRegra("vigario_artificial", "VigarioArtificial"),
              PRegra("nilo_pecanha_artificial", "NiloPecanhaArtificial")>>
      [] r = "PereiraPassosArtificial" ->
            <<PRegra("fontes", "FontesArtificial"),
              PRegra("nilo_pecanha_artificial", "NiloPecanhaArtificial")>>
      [] r = "ItutingaNatural" -> <<PCol("camargos", Codigos.camargos)>>
      [] r = "PauloAfonsoNatural" -> <<PCol("moxoto", Codigos.moxoto)>>
      [] r = "ComplexoNatural" -> <<PCol("moxoto", Codigos.moxoto)>>
      [] r = "JordaoArtificial" -> <<PCol("jordao", Codigos.jordao)>>
      [] r = "SegredoArtificial" ->
            <<PCol("segredo", Codigos.segredo), PCol("jordao", Codigos.jordao)>>
      [] r = "ItiquiraII" -> <<PCol("itiquira1", Codigos.itiquira1)>>
      [] r = "BeloMonteArtificial" -> <<PCol("pimental", Codigos.pimental)>>
      [] r = "PimentalArtificial" ->
            <<PCol("pimental", Codigos.pimental),
              PRegra("belo_monte", "BeloMonteArtificial")>>

----------------------------------------------------------------------------
(* regras.py: the per-value methods of the rules                           *)

\* the default thresholds of BombeamentoSantaCecilia.__init__
LimitesBombeamento == [inferior |-> 190, intermediario |-> 205, superior |-> 250]

\* variant of bombear: the second bracket is open at the intermediate limit
BombeamentoSantaCecilia_bombear_aberto(lim, vazao) ==
    IF Le(vazao, R(lim.inferior)) THEN Div(Mul(vazao, R(119)), R(190))
    ELSE IF Lt(R(lim.inferior), vazao) /\ Lt(vazao, R(lim.intermediario)) THEN R(119)
    ELSE IF Lt(R(lim.intermediario), vazao) /\ Le(vazao, R(lim.superior))
         THEN Sub(vazao, R(90))
    ELSE R(160)

\* BombeamentoSantaCecilia.bombear
BombeamentoSantaCecilia_bombear(lim, vazao) ==
    IF Le(vazao, R(lim.inferior)) THEN Div(Mul(vazao, R(119)), R(190))
    ELSE IF Lt(R(lim.inferior), vazao) /\ Le(vazao, R(lim.intermediario)) THEN R(119)
    ELSE IF Lt(R(lim.intermediario), vazao) /\ Le(vazao, R(lim.superior))
         THEN Sub(vazao, R(90))
    ELSE R(160)

\* VertimentoTocos.verter
VertimentoTocos_verter(vazao) == PyMax(R(0), Sub(vazao, R(25)))

\* variant of escolher: the larger of the flow and the limit
VigarioArtificial_escolher_max(vazao) == PyMax(vazao, R(190))

\* VigarioArtificial.escolher, with self.limite = 190
VigarioArtificial_escolher(vazao) == PyMin(vazao, R(190))

\* variant of escolher: the formula branch without max(0, .)
SimplicioArtificial_escolher_sem_piso(limite, vazao) ==
    IF Le(vazao, R(limite)) THEN Sub(vazao, R(90)) ELSE R(340)

\* SimplicioArtificial.escolher
SimplicioArtificial_escolher(limite, vazao) ==
    IF Le(vazao, R(limite)) THEN PyMax(R(0), Sub(vazao, R(90)))
    ELSE R(340)

\* NiloPecanhaArtificial.escolher, with self.limite = 144
NiloPecanhaArtificial_escolher(vazao) == PyMin(vazao, R(144))

\* LajesArtificial.escolher, with self.limite = 25
\* variant of escolher: the whole flow of Tocos is added
LajesArtificial_escolher_tudo(tocos, lajes) == Add(lajes, tocos)

LajesArtificial_escolher(tocos, lajes) == Add(lajes, PyMin(tocos, R(25)))

\* variant of escolher: the larger of the difference and 34
FontesArtificial_escolher_max(lajes, vigario, nilo_pecanha) ==
    IF Lt(lajes, R(17)) THEN lajes
    ELSE Add(R(17), PyMax(Sub(vigario, nilo_pecanha), R(34)))

\* FontesArtificial.escolher, with self.limite = 17
FontesArtificial_escolher(lajes, vigario, nilo_pecanha) ==
    IF Lt(lajes, R(17)) THEN lajes
    ELSE Add(R(17), PyMin(Sub(vigario, nilo_pecanha), R(34)))

\* JordaoArtificial.desviar, with self.limite = 173.5
JordaoArtificial_desviar(vazao) ==
    Sub(vazao, PyMin(Frac(347, 2), Sub(vazao, R(10))))

\* SegredoArtificial.desviar, with self.limite = 173.5
\* variant of desviar: nothing is taken from Segredo when Jordao is below 10
SegredoArtificial_desviar_sem_volta(jordao, segredo) ==
    Add(segredo, PyMin(PyMax(Sub(jordao, R(10)), R(0)), Frac(347, 2)))

SegredoArtificial_desviar(jordao, segredo) ==
    Add(segredo, PyMin(Sub(jordao, R(10)), Frac(347, 2)))

\* variant of desviar: the diversion is not capped at desvio_maximo
BeloMonteArtificial_desviar_sem_teto(pimental, hidrograma) ==
    IF Lt(pimental, hidrograma) THEN R(0) ELSE Sub(pimental, hidrograma)

\* variant of desviar: below the hydrograph the difference is returned
BeloMonteArtificial_desviar_abaixo(pimental, hidrograma) ==
    IF Gt(pimental, Add(hidrograma, R(13900))) THEN R(13900)
    ELSE Sub(pimental, hidrograma)

\* BeloMonteArtificial.desviar, with self.desvio_maximo = 13900
BeloMonteArtificial_desviar(pimental, hidrograma) ==
    IF Lt(pimental, hidrograma) THEN R(0)
    ELSE IF Gt(pimental, Add(hidrograma, R(13900))) THEN R(13900)
    ELSE Sub(pimental, hidrograma)

----------------------------------------------------------------------------
(* The calendar month of a date (DatetimeIndex.month), dates being days    *)
(* 1..365 of a non-leap year.                                              *)

DiasAcumulados == <<0, 31, 59, 90, 120, 151, 181, 212, 243, 273, 304, 334, 365>>
Mes(d) == CHOOSE m \in 1..12 : DiasAcumulados[m] < d /\ d <= DiasAcumulados[m + 1]

\* variant of preparar: a month without a row gets the flow 0
BeloMonteArtificial_preparar_zero(pimental, index, hidrograma) ==
    Frame(index, <<[nome |-> Txt("pimental"), vals |-> pimental.vals],
                   [nome |-> Txt("hidrograma"),
                    vals |-> [i \in DOMAIN index |->
                                 IF Mes(index[i]) \in DOMAIN hidrograma.linhas
                                 THEN hidrograma.linhas[Mes(index[i])] ELSE R(0)]]>>)

\* BeloMonteArtificial.preparar: the Pimental column joined (left, on the
\* month of the date) with the hydrograph, which is [colunas, linhas] with
\* linhas a function from the months that have a row to their flow
BeloMonteArtificial_preparar(pimental, index, hidrograma) ==
    LET df == Rename(DataFrameSerie(pimental, index), Cod(288), Txt("pimental"))
        mes == [i \in DOMAIN index |-> Mes(index[i])]
        hid == [i \in DOMAIN index |->
                   IF mes[i] \in DOMAIN hidrograma.linhas
                   THEN hidrograma.linhas[mes[i]] ELSE NaN]
    IN  Frame(index, <<[nome |-> Txt("pimental"),
                        vals |-> Coluna(df, Txt("pimental")).vals],
                       [nome |-> Txt("hidrograma"), vals |-> hid]>>)

\* df["codigo"] = codigo, the last statement of every calcular
\* variant of the output of a rule: every rule writes the code of Guarapiranga
Saida_guarapiranga(df, codigo) == ComColuna(df, Txt("codigo"), ColunaConst(df.index, 117))

Saida(df, codigo) == ComColuna(df, Txt("codigo"), ColunaConst(df.index, codigo))

Valor == Txt("valor")
\* variant of the factor of the correction term
Decimo_dobrado == Frac(2, 10)
Decimo == Frac(1, 10)

----------------------------------------------------------------------------
(* regras.py: calcular of each rule, from the fields c that __init__ set   *)

CalcularRegra(r, c, index, hidrograma) ==
    CASE r = "Traicao" ->
            Saida(DataFrameColunas(SAdd(c["guarapiranga"], c["billings"]), index, Valor),
                  Codigos.traicao)
      [] r = "Pedreira" ->
            Saida(Rename(DataFrameSerie(c["billings"], index), Cod(118), Valor),
                  Codigos.pedreira)
      [] r = "BillingsPedras" ->
            Saida(Rename(DataFrameSerie(
                      SDivK(SSubK(c["billings"], Frac(185, 1000)), Frac(8103, 10000)),
                      index), Cod(118), Valor),
                  Codigos.billings_pedras)
      [] r = "Pedras" ->
            Saida(DataFrameColunas(SSub(c["billings_pedras"], c["billings"]), index, Valor),
                  Codigos.pedras)
      [] r = "EdgardSouza" ->
            Saida(DataFrameColunas(
                      SSub(SSub(c["esouza"], c["guarapiranga"]), c["billings"]),
                      index, Valor),
                  Codigos.edgard_souza_sem_tributarios)
      [] r = "HenryBorden" ->
            Saida(DataFrameColunas(
                      SAdd(SAdd(SAdd(c["pedras"],
                          SMulK(SSub(SSub(c["esouza"], c["guarapiranga"]), c["billings"]),
                                Decimo)),
                          c["guarapiranga"]), c["billings"]),
                      index, Valor),
                  Codigos.henry_borden)
      [] r = "BillingsArtificial" ->
            Saida(DataFrameColunas(
                      SAdd(SAdd(
                          SMulK(SSub(SSub(c["esouza"], c["guarapiranga"]), c["billings"]),
                                Decimo),
                          c["guarapiranga"]), c["billings"]),
                      index, Valor),
                  Codigos.billings_artificial)
      [] r = "BarraBonitaArtificial" ->
            Saida(DataFrameColunas(
                      SSub(SSub(SSub(c["barra_bonita"],
                          SMulK(SSub(SSub(c["esouza"], c["guarapiranga"]), c["billings"]),
                                Decimo)),
                          c["guarapiranga"]), c["billings"]),
                      index, Valor),
                  Codigos.barra_bonita_artificial)
      [] r = "BaririArtificial" ->
            Saida(DataFrameColunas(
                      SSub(SSub(SSub(c["bariri"],
                          SMulK(SSub(SSub(c["esouza"], c["guarapiranga"]), c["billings"]),
                                Decimo)),
                          c["guarapiranga"]), c["billings"]),
                      index, Valor),
                  Codigos.bariri_artificial)
      [] r = "IbitingaArtificial" ->
            Saida(DataFrameColunas(
                      SSub(SSub(SSub(c["ibitinga"],
                          SMulK(SSub(SSub(c["esouza"], c["guarapiranga"]), c["billings"]),
                                Decimo)),
                          c["guarapiranga"]), c["billings"]),
                      index, Valor),
                  Codigos.ibitinga_artificial)
      [] r = "PromissaoArtificial" ->
            Saida(DataFrameColunas(
                      SSub(SSub(SSub(c["promissao"],
                          SMulK(SSub(SSub(c["esouza"], c["guarapiranga"]), c["billings"]),
                                Decimo)),
                          c["guarapiranga"]), c["billings"]),
                      index, Valor),
                  Codigos.promissao_artificial)
      [] r = "NovaAvanhandavaArtificial" ->
            Saida(DataFrameColunas(
                      SSub(SSub(SSub(c["nova_avanhandava"],
                          SMulK(SSub(SSub(c["esouza"], c["guarapiranga"]), c["billings"]),
                                Decimo)),
                          c["guarapiranga"]), c["billings"]),
                      index, Valor),
                  Codigos.nova_avanhandava_artificial)
      [] r = "TresIrmaosArtificial" ->
            Saida(DataFrameColunas(
                      SSub(SSub(SSub(c["tres_irmaos"],
                          SMulK(SSub(SSub(c["esouza"], c["guarapiranga"]), c["billings"]),
                                Decimo)),
                          c["guarapiranga"]), c["billings"]),
                      index, Valor),
                  Codigos.tres_irmaos_artificial)
      [] r = "IlhaSolteiraEquivalente" ->
            Saida(DataFrameColunas(
                      SSub(SSub(SSub(SAdd(c["tres_irmaos"], c["ilha_solteira"]),
                          SMulK(SSub(SSub(c["esouza"], c["guarapiranga"]), c["billings"]),
                                Decimo)),
                          c["guarapiranga"]), c["billings"]),
                      index, Valor),
                  Codigos.ilha_solteira_equiv)
      [] r = "JupiaArtificial" ->
            Saida(DataFrameColunas(
                      SSub(SSub(SSub(c["jupia"],
                          SMulK(SSub(SSub(c["esouza"], c["guarapiranga"]), c["billings"]),
                                Decimo)),
                          c["guarapiranga"]), c["billings"]),
                      index, Valor),
                  Codigos.jupia_artificial)
      [] r = "PortoPrimaveraArtificial" ->
            Saida(DataFrameColunas(
                      SSub(SSub(SSub(c["porto_primavera"],
                          SMulK(SSub(SSub(c["esouza"], c["guarapiranga"]), c["billings"]),
                                Decimo)),
                          c["guarapiranga"]), c["billings"]),
                      index, Valor),
                  Codigos.porto_primavera_artificial)
      [] r = "ItaipuArtificial" ->
            Saida(DataFrameColunas(
                      SSub(SSub(SSub(c["itaipu"],
                          SMulK(SSub(SSub(c["esouza"], c["guarapiranga"]), c["billings"]),
                                Decimo)),
                          c["guarapiranga"]), c["billings"]),
                      index, Valor),
                  Codigos.itaipu_artificial)
      [] r = "BombeamentoSantaCecilia" ->
            Saida(Rename(DataFrameSerie(
                      Serie(c["santa_cecilia"].nome,
                            [i \in DOMAIN index |->
                                BombeamentoSantaCecilia_bombear(
                                    LimitesBombeamento, c["santa_cecilia"].vals[i])]),
                      index), Cod(125), Valor),
                  Codigos.bombeamento_santa_cecilia)
      [] r = "VertimentoTocos" ->
            Saida(Rename(DataFrameSerie(SApply(c["tocos"], [i \in DOMAIN index |-> VertimentoTocos_verter(c["tocos"].vals[i])]), index),
                         Cod(201), Valor),
                  Codigos.vertimento_tocos)
      [] r = "SantanaNatural" ->
            Saida(DataFrameColunas(
                      SMulK(SAdd(c["tocos"], c["lajes"]), Frac(997, 1000)), index, Valor),
                  Codigos.santana)
      [] r = "SantanaArtificial" ->
            Saida(DataFrameColunas(
                      SAdd(SAdd(SSub(c["santana"], c["tocos"]), c["vertimento_tocos"]),
                           c["bombeamento_santa_cecilia"]),
                      index, Valor),
                  Codigos.santana_artificial)
      [] r = "VigarioArtificial" ->
            Saida(DataFrameColunas(
                      SApply(c["santana_artificial"], [i \in DOMAIN index |-> VigarioArtificial_escolher(c["santana_artificial"].vals[i])]),
                      index, Valor),
                  Codigos.vigario)
      [] r = "VertimentoSantana" ->
            Saida(DataFrameColunas(
                      SSub(c["santana_artificial"], c["vigario_artificial"]), index, Valor),
                  Codigos.santana_vertimento)
      [] r = "AntaArtificial" ->
            Saida(DataFrameColunas(
                      SAdd(SSub(SSub(c["anta"], c["bombeamento_santa_cecilia"]),
                                c["santana"]),
                           c["vertimento_santana"]),
                      index, Valor),
                  Codigos.anta_artificial)
      [] r = "SimplicioArtificial" ->
            Saida(DataFrameColunas(
                      Serie(c["anta"].nome,
                            [i \in DOMAIN index |->
                                SimplicioArtificial_escolher(430, c["anta"].vals[i])]),
                      index, Valor),
                  Codigos.simplicio_artificial)
      [] r = "IlhaPombosArtificial" ->
            Saida(DataFrameColunas(
                      SAdd(SSub(SSub(c["ilha_pombos"], c["bombeamento_santa_cecila"]),
                                c["santana"]),
                           c["vertimento_santana"]),
                      index, Valor),
                  Codigos.ilha_pombos_artificial)
      [] r = "NiloPecanhaArtificial" ->
            Saida(DataFrameColunas(
                      SApply(c["vigario_artificial"], [i \in DOMAIN index |-> NiloPecanhaArtificial_escolher(c["vigario_artificial"].vals[i])]),
                      index, Valor),
                  Codigos.nilo_pecanha_artificial)
      [] r = "LajesArtificial" ->
            Saida(DataFrameLista(
                      [i \in DOMAIN index |->
                          LajesArtificial_escolher(c["tocos"].vals[i], c["lajes"].vals[i])],
                      index, Valor),
                  Codigos.lajes_artificial)
      [] r = "FontesArtificial" ->
            Saida(DataFrameLista(
                      [i \in DOMAIN index |->
                          FontesArtificial_escolher(c["lajes"].vals[i],
                              c["vigario_artificial"].vals[i],
                              c["nilo_pecanha_artificial"].vals[i])],
                      index, Valor),
                  Codigos.fontes_artificial)
      [] r = "PereiraPassosArtificial" ->
            Saida(DataFrameColunas(
                      SAdd(c["fontes"], c["nilo_pecanha_artificial"]), index, Valor),
                  Codigos.pereira_passos_artificial)
      [] r = "ItutingaNatural" ->
            Saida(Rename(DataFrameSerie(c["camargos"], index), Cod(1), Valor),
                  Codigos.itutinga)
      [] r = "PauloAfonsoNatural" ->
            Saida(Rename(DataFrameSerie(c["moxoto"], index), Cod(173), Valor),
                  Codigos.paulo_afonso)
      [] r = "ComplexoNatural" ->
            Saida(Rename(DataFrameSerie(c["moxoto"], index), Cod(173), Valor),
                  Codigos.complexo)
      [] r = "JordaoArtificial" ->
            Saida(Rename(DataFrameSerie(SApply(c["jordao"], [i \in DOMAIN index |-> JordaoArtificial_desviar(c["jordao"].vals[i])]), index),
                         Cod(73), Valor),
                  Codigos.jordao_artificial)
      [] r = "SegredoArtificial" ->
            Saida(DataFrameLista(
                      [i \in DOMAIN index |->
                          SegredoArtificial_desviar(c["jordao"].vals[i],
                                                    c["segredo"].vals[i])],
                      index, Valor),
                  Codigos.segredo_artificial)
      [] r = "ItiquiraII" ->
            Saida(Rename(DataFrameSerie(c["itiquira1"], index), Cod(259), Valor),
                  Codigos.itiquira2)
      [] r = "BeloMonteArtificial" ->
            LET df == BeloMonteArtificial_preparar(c["pimental"], index, hidrograma)
                p  == Coluna(df, Txt("pimental")).vals
                h  == Coluna(df, Txt("hidrograma")).vals
            IN  Saida(Frame(index,
                        <<[nome |-> Valor,
                           vals |-> [i \in DOMAIN index |->
                                        BeloMonteArtificial_desviar(p[i], h[i])]]>>),
                      Codigos.belo_monte_artificial)
      [] r = "PimentalArtificial" ->
            Saida(DataFrameColunas(SSub(c["pimental"], c["belo_monte"]), index, Valor),
                  Codigos.pimental_artificial)

(* Regra(df).calcular(): the construction, then calcular.  The result is   *)
(* [erro, frame]: erro is "" and frame the DataFrame returned, or erro     *)
(* names the exception raised and there is no frame.                       *)

Falha(e) == [erro |-> e]

\* variant of Selecionar: an absent label gives a column of missing values
Selecionar_sem_erro(df, rot) ==
    IF TemColuna(df, rot) THEN [erro |-> "", serie |-> Coluna(df, rot)]
    ELSE [erro |-> "", serie |-> Serie(rot, ColunaNaN(df.index))]

\* x[rot], the result when the selection succeeds being [erro, serie]
Selecionar(df, rot) ==
    IF TemColuna(df, rot) THEN [erro |-> "", serie |-> Coluna(df, rot)]
    ELSE Falha("KeyError")

\* o is the outcome of Regra.__init__: calcular() when it did not raise
CalcularSe(r, o, index, hidrograma) ==
    IF o.erro # "" THEN o
    ELSE [erro |-> "", frame |-> CalcularRegra(r, o.campos, index, hidrograma)]

\* x is the outcome of Regra(df).calcular(): x["valor"] when it did not raise
ValorSe(x) == IF x.erro # "" THEN x ELSE Selecionar(x.frame, Valor)

RECURSIVE ExecPassos(_, _, _, _, _), Atribuir(_, _, _, _, _, _), Construir(_, _, _)

\* the steps ps[i..] of an __init__, the fields set so far being campos
ExecPassos(ps, i, campos, df, hidrograma) ==
    IF i > Len(ps) THEN [erro |-> "", campos |-> campos]
    ELSE IF "col" \in DOMAIN ps[i]
         THEN Atribuir(Selecionar(df, Cod(ps[i].col)), ps, i, campos, df, hidrograma)
         ELSE Atribuir(ValorSe(CalcularSe(ps[i].regra,
                                          Construir(ps[i].regra, df, hidrograma),
                                          df.index, hidrograma)),
                       ps, i, campos, df, hidrograma)

\* self.campo = s, s being the outcome of the right-hand side of step i
Atribuir(s, ps, i, campos, df, hidrograma) ==
    IF s.erro # "" THEN Falha(s.erro)
    ELSE ExecPassos(ps, i + 1, campos @@ (ps[i].campo :> s.serie), df, hidrograma)

\* Regra.__init__(df) (for the Xingu rules, with the hydrograph)
Construir(r, df, hidrograma) == ExecPassos(Passos(r), 1, <<>>, df, hidrograma)

\* Regra(df).calcular()
Regra(r, df, hidrograma) ==
    CalcularSe(r, Construir(r, df, hidrograma), df.index, hidrograma)

----------------------------------------------------------------------------
(* ena.py: the basin composers                                             *)

RegrasAltoTiete ==
    <<"Traicao", "Pedreira", "BillingsPedras", "Pedras", "EdgardSouza", "HenryBorden",
      "BillingsArtificial", "BarraBonitaArtificial", "BaririArtificial",
      "IbitingaArtificial", "PromissaoArtificial", "NovaAvanhandavaArtificial",
      "TresIrmaosArtificial", "IlhaSolteiraEquivalente", "JupiaArtificial",
      "PortoPrimaveraArtificial", "ItaipuArtificial">>

RegrasParaibaSul ==
    <<"BombeamentoSantaCecilia", "VertimentoTocos", "SantanaNatural", "SantanaArtificial",
      "VigarioArtificial", "VertimentoSantana", "AntaArtificial", "SimplicioArtificial",
      "IlhaPombosArtificial", "NiloPecanhaArtificial", "LajesArtificial",
      "FontesArtificial", "PereiraPassosArtificial">>

RegrasSaoFrancisco == <<"PauloAfonsoNatural", "ComplexoNatural">>
RegrasIguacu == <<"JordaoArtificial", "SegredoArtificial">>
RegrasGrande == <<"ItutingaNatural">>
RegrasParaguai == <<"ItiquiraII">>
\* variant of the Xingu composer: its two statements exchanged
RegrasXingu_invertida == <<"PimentalArtificial", "BeloMonteArtificial">>
RegrasXingu == <<"BeloMonteArtificial", "PimentalArtificial">>

RECURSIVE ConcatCols(_, _)
ConcatCols(frames, i) ==
    IF i > Len(frames) THEN <<>> ELSE frames[i].cols \o ConcatCols(frames, i + 1)

\* pd.concat(frames, axis=1) of frames that share the index
Concat(frames, index) == Frame(index, ConcatCols(frames, 1))

\* the statements  x = regras.R(df).calcular()  of a composer, in order
RECURSIVE CalcularRegras(_, _, _, _, _), Guardar(_, _, _, _, _, _)
CalcularRegras(rs, i, frames, df, hidrograma) ==
    IF i > Len(rs) THEN [erro |-> "", frames |-> frames]
    ELSE Guardar(Regra(rs[i], df, hidrograma), rs, i, frames, df, hidrograma)

\* x is the outcome of the i-th statement
Guardar(x, rs, i, frames, df, hidrograma) ==
    IF x.erro # "" THEN x
    ELSE CalcularRegras(rs, i + 1, Append(frames, x.frame), df, hidrograma)

\* pd.concat(frames, axis=1) of the frames the statements x produced
ConcatSe(x, index) ==
    IF x.erro # "" THEN x ELSE [erro |-> "", frame |-> Concat(x.frames, index)]

\* a composer that ends with pd.concat([...], axis=1)
ComporConcat(rs, df, hidrograma) ==
    ConcatSe(CalcularRegras(rs, 1, <<>>, df, hidrograma), df.index)

\* x.to_frame(): a method of Series; a DataFrame has none
ToFrame(x, index) ==
    IF EhSerie(x) THEN [erro |-> "", frame |-> DataFrameSerie(x, index)]
    ELSE Falha("AttributeError")

ToFrameSe(x, index) == IF x.erro # "" THEN x ELSE ToFrame(x.frame, index)

\* a composer that ends with regra.to_frame()
ComporToFrame(rs, df, hidrograma) == ToFrameSe(Regra(rs[1], df, hidrograma), df.index)

SemHidrograma == [colunas |-> <<>>, linhas |-> <<>>]

calcular_artificiais_alto_tiete(df) == ComporConcat(RegrasAltoTiete, df, SemHidrograma)
calcular_artificiais_paraiba_sul(df) == ComporConcat(RegrasParaibaSul, df, SemHidrograma)
calcular_naturais_sao_francisco(df) == ComporConcat(RegrasSaoFrancisco, df, SemHidrograma)
calcular_artificiais_iguacu(df) == ComporConcat(RegrasIguacu, df, SemHidrograma)
calcular_naturais_grande(df) == ComporToFrame(RegrasGrande, df, SemHidrograma)
calcular_naturais_paraguai(df) == ComporToFrame(RegrasParaguai, df, SemHidrograma)
calcular_artificiais_xingu(df, hidrograma) == ComporConcat(RegrasXingu, df, hidrograma)

Bacias ==
    <<"alto_tiete", "paraiba_sul", "sao_francisco", "iguacu", "grande", "paraguai",
      "xingu">>

RegrasDaBacia(b) ==
    CASE b = "alto_tiete" -> RegrasAltoTiete
      [] b = "paraiba_sul" -> RegrasParaibaSul
      [] b = "sao_francisco" -> RegrasSaoFrancisco
      [] b = "iguacu" -> RegrasIguacu
      [] b = "grande" -> RegrasGrande
      [] b = "paraguai" -> RegrasParaguai
      [] b = "xingu" -> RegrasXingu

Compositor(b, df, hidrograma) ==
    CASE b = "alto_tiete" -> calcular_artificiais_alto_tiete(df)
      [] b = "paraiba_sul" -> calcular_artificiais_paraiba_sul(df)
      [] b = "sao_francisco" -> calcular_naturais_sao_francisco(df)
      [] b = "iguacu" -> calcular_artificiais_iguacu(df)
      [] b = "grande" -> calcular_naturais_grande(df)
      [] b = "paraguai" -> calcular_naturais_paraguai(df)
      [] b = "xingu" -> calcular_artificiais_xingu(df, hidrograma)

\* the invocation regras.R(df) of rule r at depth n: 0 in a statement of a
\* composer, n + 1 in the __init__ of a rule invoked at depth n
Invocacao(r, n) == [regra |-> r, nivel |-> n]

RECURSIVE Invocacoes(_, _, _, _), InvocacoesDosPassos(_, _, _, _, _)

\* the invocations regras.R(df).calcular() makes, in order: its own, then
\* those of its __init__
Invocacoes(r, n, df, hidrograma) ==
    <<Invocacao(r, n)>> \o InvocacoesDosPassos(Passos(r), 1, n + 1, df, hidrograma)

\* the invocations of the steps ps[i..] of an __init__; a step that raises
\* ends the __init__
InvocacoesDosPassos(ps, i, n, df, hidrograma) ==
    IF i > Len(ps) THEN <<>>
    ELSE IF "col" \in DOMAIN ps[i]
         THEN IF Selecionar(df, Cod(ps[i].col)).erro # "" THEN <<>>
              ELSE InvocacoesDosPassos(ps, i + 1, n, df, hidrograma)
         ELSE Invocacoes(ps[i].regra, n, df, hidrograma)
              \o (IF ValorSe(Regra(ps[i].regra, df, hidrograma)).erro # "" THEN <<>>
                  ELSE InvocacoesDosPassos(ps, i + 1, n, df, hidrograma))

\* the invocations of the statements rs[i..] of a composer; a statement
\* that raises ends the composer
RECURSIVE InvocacoesDaLista(_, _, _, _)
InvocacoesDaLista(rs, i, df, hidrograma) ==
    IF i > Len(rs) THEN <<>>
    ELSE Invocacoes(rs[i], 0, df, hidrograma)
         \o (IF Regra(rs[i], df, hidrograma).erro # "" THEN <<>>
             ELSE InvocacoesDaLista(rs, i + 1, df, hidrograma))

InvocacoesDoCompositor(b, df, hidrograma) ==
    InvocacoesDaLista(RegrasDaBacia(b), 1, df, hidrograma)

(* The hydrograph passed to adicionar_vazoes_artificiais is [colunas, vals]: *)
(* colunas the names of its columns, vals the entries of each column as    *)
(* passed.  An entry is Inteiro(n), Float(q) or Str(cs) (a text).              *)

Str(cs) == [chars |-> cs]
Dia(d) == [dia |-> d]

Digitos == <<"0", "1", "2", "3", "4", "5", "6", "7", "8", "9">>
EhDigito(ch) == \E k \in DOMAIN Digitos : Digitos[k] = ch
Digito(ch) == (CHOOSE k \in DOMAIN Digitos : Digitos[k] = ch) - 1

\* the text is a non-empty run of decimal digits
EhNumero(cs) == Len(cs) > 0 /\ \A i \in DOMAIN cs : EhDigito(cs[i])

\* float(text) for a run of decimal digits
RECURSIVE ValorNumerico(_, _)
ValorNumerico(cs, n) ==
    IF n = 0 THEN 0 ELSE 10 * ValorNumerico(cs, n - 1) + Digito(cs[n])

Inteiro(n) == [int |-> n]
Float(q) == [float |-> q]

\* the position of the column named nome
Posicao(tabela, nome) == CHOOSE k \in DOMAIN tabela.colunas : tabela.colunas[k] = nome

\* int(x) or float(x) of one entry: a text of digits is parsed, any other
\* text raises ValueError; int(x) of a float drops the fraction and raises
\* ValueError on a missing value
ParaTipo(x, tipo) ==
    IF "chars" \in DOMAIN x
    THEN IF EhNumero(x.chars)
         THEN [erro |-> "",
               valor |-> IF tipo = "int"
                         THEN Inteiro(ValorNumerico(x.chars, Len(x.chars)))
                         ELSE Float(R(ValorNumerico(x.chars, Len(x.chars))))]
         ELSE Falha("ValueError")
    ELSE IF "int" \in DOMAIN x
         THEN [erro |-> "", valor |-> IF tipo = "int" THEN x ELSE Float(R(x.int))]
    ELSE IF tipo = "float" THEN [erro |-> "", valor |-> x]
    ELSE IF IsNaN(x.float) THEN Falha("ValueError")
    ELSE [erro |-> "", valor |-> Inteiro(x.float[1] \div x.float[2])]

\* column.astype(tipo), entry by entry from the first
RECURSIVE Astype(_, _, _, _), GuardarEntrada(_, _, _, _, _)
Astype(coluna, tipo, i, feitos) ==
    IF i > Len(coluna) THEN [erro |-> "", coluna |-> feitos]
    ELSE GuardarEntrada(ParaTipo(coluna[i], tipo), coluna, tipo, i, feitos)

GuardarEntrada(x, coluna, tipo, i, feitos) ==
    IF x.erro # "" THEN x ELSE Astype(coluna, tipo, i + 1, Append(feitos, x.valor))

\* hidrograma[nome] = c.coluna, c being the outcome of the astype; the
\* assignment is made on the table that was passed
AtribuirColuna(hidrograma, nome, c) ==
    IF c.erro # "" THEN [erro |-> c.erro, tabela |-> hidrograma]
    ELSE [erro |-> "",
          tabela |-> [hidrograma EXCEPT !.vals[Posicao(hidrograma, nome)] = c.coluna]]

\* the assignment of column nome, v being the outcome of what came before
CoagirSe(v, nome, tipo) ==
    IF v.erro # "" THEN v
    ELSE AtribuirColuna(v.tabela, nome,
                        Astype(v.tabela.vals[Posicao(v.tabela, nome)], tipo, 1, <<>>))

\* the loop over colunas_necessarias
ColunasDoHidrograma(hidrograma) ==
    IF \E i \in DOMAIN hidrograma.colunas : hidrograma.colunas[i] = "mes"
    THEN IF \E i \in DOMAIN hidrograma.colunas : hidrograma.colunas[i] = "vazao"
         THEN [erro |-> "", tabela |-> hidrograma]
         ELSE [erro |-> "ValueError", tabela |-> hidrograma]
    ELSE [erro |-> "ValueError", tabela |-> hidrograma]

\* variant of __validar_hidrograma__: the columns are not checked
validar_hidrograma_sem_checagem(hidrograma) == [erro |-> "", tabela |-> hidrograma]

\* VazaoENA.__validar_hidrograma__: [erro, tabela], tabela being the table
\* that was passed as the call leaves it
validar_hidrograma(hidrograma) ==
    CoagirSe(CoagirSe(ColunasDoHidrograma(hidrograma), "mes", "int"), "vazao", "float")

ColunaDe(tabela, nome) == tabela.vals[Posicao(tabela, nome)]

\* the months of the rows, those that are integers
MesesInteiros(hidrograma) ==
    {ColunaDe(hidrograma, "mes")[i].int :
        i \in {k \in DOMAIN ColunaDe(hidrograma, "mes") :
                  "int" \in DOMAIN ColunaDe(hidrograma, "mes")[k]}}

LinhaDoMes(hidrograma, m) ==
    CHOOSE i \in DOMAIN ColunaDe(hidrograma, "mes") : ColunaDe(hidrograma, "mes")[i] = Inteiro(m)

VazaoDaLinha(hidrograma, i) ==
    IF "float" \in DOMAIN ColunaDe(hidrograma, "vazao")[i]
    THEN ColunaDe(hidrograma, "vazao")[i].float
    ELSE NaN

\* the rows of the hydrograph by month, as the merge on "mes" of
\* BeloMonteArtificial.preparar reads them (one row per month)
PorMes(hidrograma) ==
    [colunas |-> hidrograma.colunas,
     linhas |-> IF /\ \E i \in DOMAIN hidrograma.colunas : hidrograma.colunas[i] = "mes"
                   /\ \E i \in DOMAIN hidrograma.colunas : hidrograma.colunas[i] = "vazao"
                THEN [m \in MesesInteiros(hidrograma) |->
                         VazaoDaLinha(hidrograma, LinhaDoMes(hidrograma, m))]
                ELSE <<>>]

\* the composer calls of adicionar_vazoes_artificiais, in order; feitos
\* lists the calls made, the failing one included
RECURSIVE ChamarCompositores(_, _, _, _, _), GuardarBacia(_, _, _, _, _, _)
ChamarCompositores(i, frames, feitos, df, hidrograma) ==
    IF i > Len(Bacias) THEN [erro |-> "", frames |-> frames, feitos |-> feitos]
    ELSE GuardarBacia(Compositor(Bacias[i], df, hidrograma), i, frames,
                      Append(feitos, Bacias[i]), df, hidrograma)

\* x is the outcome of the i-th composer
GuardarBacia(x, i, frames, feitos, df, hidrograma) ==
    IF x.erro # "" THEN [erro |-> x.erro, feitos |-> feitos]
    ELSE ChamarCompositores(i + 1, Append(frames, x.frame), feitos, df, hidrograma)

\* the composers, v being the outcome of the validation of the hydrograph
ComporSe(v, df) ==
    IF v.erro # "" THEN [erro |-> v.erro, feitos |-> <<"validar_hidrograma">>]
    ELSE ChamarCompositores(1, <<>>, <<"validar_hidrograma">>, df, PorMes(v.tabela))

\* the final pd.concat([df, ...], axis=1), x being the outcome of the composers
JuntarSe(x, df) ==
    IF x.erro # "" THEN x
    ELSE [erro |-> "", frame |-> Concat(<<df>> \o x.frames, df.index), feitos |-> x.feitos]

\* VazaoENA.adicionar_vazoes_artificiais: [erro, frame, feitos]
adicionar_vazoes_artificiais(df, hidrograma) ==
    JuntarSe(ComporSe(validar_hidrograma(hidrograma), df), df)

----------------------------------------------------------------------------
(* ena.py: the composer statements of adicionar_vazoes_artificiais taken   *)
(* in another order.  They share df, the copy of the dataset.              *)

\* variant of DadosApos: the composer drops the first column of the dataset
DadosApos_sem_coluna(b, df) == Frame(df.index, Tail(df.cols))

\* df as composer b leaves it: no rule and no composer writes to it
DadosApos(b, df) == df

\* the composer statements in the order ordem, from the i-th: the outcome
\* of each composer that ran, the one that raised being the last
RECURSIVE ChamarNaOrdem(_, _, _, _), GuardarNaOrdem(_, _, _, _, _)
ChamarNaOrdem(ordem, i, df, hidrograma) ==
    IF i > Len(ordem) THEN <<>>
    ELSE GuardarNaOrdem(Compositor(ordem[i], df, hidrograma), ordem, i, df, hidrograma)

GuardarNaOrdem(x, ordem, i, df, hidrograma) ==
    IF x.erro # "" THEN <<[bacia |-> ordem[i], saida |-> x]>>
    ELSE <<[bacia |-> ordem[i], saida |-> x]>>
         \o ChamarNaOrdem(ordem, i + 1, DadosApos(ordem[i], df), hidrograma)

----------------------------------------------------------------------------
(* ena.py: calcular_ena and agrupar.  A long table is a sequence of rows.  *)
(* The tables handled here carry pairwise distinct column labels, and the  *)
(* productivity and grouping tables hold one row per station code, so      *)
(* they are functions from the codes that have a row.                      *)

RECURSIVE SortSet(_)
SortSet(S) ==
    IF S = {} THEN <<>>
    ELSE LET m == CHOOSE x \in S : \A y \in S : x <= y
         IN  <<m>> \o SortSet(S \ {m})

Range(f) == {f[i] : i \in DOMAIN f}

\* df.melt(value_name="valor", var_name="codigo", ignore_index=False).reset_index()
Melt(df) ==
    LET n == Len(df.index) IN
    [k \in 1..(n * Len(df.cols)) |->
        LET j == ((k - 1) \div n) + 1
            i == ((k - 1) % n) + 1
        IN  [data |-> df.index[i], codigo |-> df.cols[j].nome,
             valor |-> df.cols[j].vals[i]]]

\* df.pivot(index="data", columns=..., values=...) of rows [data, chave,
\* valor], chave the column key of the row; colunas are the keys in sorted
\* order
Pivot(linhas, colunas) ==
    LET datas == SortSet({linhas[k].data : k \in DOMAIN linhas}) IN
    Frame(datas,
          [j \in DOMAIN colunas |->
              [nome |-> colunas[j],
               vals |-> [i \in DOMAIN datas |->
                   IF \E k \in DOMAIN linhas :
                          linhas[k].data = datas[i] /\ linhas[k].chave = colunas[j]
                   THEN linhas[CHOOSE k \in DOMAIN linhas :
                          linhas[k].data = datas[i] /\ linhas[k].chave = colunas[j]].valor
                   ELSE NaN]]])

\* variant of JuntarProdutibilidade: a code without a coefficient gets 0
JuntarProdutibilidade_zero(linhas, prod) ==
    [k \in DOMAIN linhas |->
        LET l == linhas[k]
            p == IF "cod" \in DOMAIN l.codigo /\ l.codigo.cod \in DOMAIN prod.linhas
                 THEN prod.linhas[l.codigo.cod] ELSE R(0)
        IN  [data |-> l.data, codigo |-> l.codigo, valor |-> l.valor,
             produtibilidade |-> p, ena |-> Mul(l.valor, p)]]

\* df_melt.merge(self.produtibilidade, on="codigo", how="left"), then
\* assign(ena = valor * produtibilidade)
JuntarProdutibilidade(linhas, prod) ==
    [k \in DOMAIN linhas |->
        LET l == linhas[k]
            p == IF "cod" \in DOMAIN l.codigo /\ l.codigo.cod \in DOMAIN prod.linhas
                 THEN prod.linhas[l.codigo.cod] ELSE NaN
        IN  [data |-> l.data, codigo |-> l.codigo, valor |-> l.valor,
             produtibilidade |-> p, ena |-> Mul(l.valor, p)]]

\* df_prod[["data", "codigo", "ena"]]
EnaPorCodigo(linhas) ==
    [k \in DOMAIN linhas |->
        [data |-> linhas[k].data, chave |-> linhas[k].codigo, valor |-> linhas[k].ena]]

\* the rows of df_agrupado, keyed by their group
ValorPorGrupo(linhas) ==
    [k \in DOMAIN linhas |->
        [data |-> linhas[k].data, chave |-> Txt(linhas[k].grupo),
         valor |-> linhas[k].valor]]

\* the numeric labels among the rows, in increasing order
CodigosOrdenados(linhas) ==
    LET cs == SortSet({linhas[k].codigo.cod : k \in DOMAIN linhas})
    IN  [j \in DOMAIN cs |-> Cod(cs[j])]

\* VazaoENA.calcular_ena
calcular_ena(df, prod) ==
    LET df_prod == JuntarProdutibilidade(Melt(df), prod)
    IN  [erro |-> "", frame |-> Pivot(EnaPorCodigo(df_prod), CodigosOrdenados(df_prod))]

\* variant of __validar_agrupamento__: the number of columns is not checked
validar_agrupamento_so_codigo(agrupamento) ==
    IF ~ \E i \in DOMAIN agrupamento.colunas : agrupamento.colunas[i] = "codigo"
    THEN [erro |-> "ValueError"]
    ELSE [erro |-> "", tabela |-> agrupamento]

\* VazaoENA.__validar_agrupamento__
validar_agrupamento(agrupamento) ==
    IF Len(agrupamento.colunas) # 2 THEN Falha("ValueError")
    ELSE IF ~ \E i \in DOMAIN agrupamento.colunas : agrupamento.colunas[i] = "codigo"
         THEN Falha("ValueError")
    ELSE [erro |-> "", tabela |-> agrupamento]

\* variant of JuntarAgrupamento: a code without a row joins the first group
JuntarAgrupamento_com_todos(linhas, agrupamento) ==
    [k \in DOMAIN linhas |->
        LET l == linhas[k]
            tem == "cod" \in DOMAIN l.codigo /\ l.codigo.cod \in DOMAIN agrupamento.linhas
        IN  [data |-> l.data, codigo |-> l.codigo, valor |-> l.valor,
             tem_grupo |-> TRUE,
             grupo |-> IF tem THEN agrupamento.linhas[l.codigo.cod] ELSE "N"]]

\* df_melt.merge(agrupamento, on="codigo", how="left"): a code without a
\* row in the grouping table gets a missing group
JuntarAgrupamento(linhas, agrupamento) ==
    [k \in DOMAIN linhas |->
        LET l == linhas[k]
            tem == "cod" \in DOMAIN l.codigo /\ l.codigo.cod \in DOMAIN agrupamento.linhas
        IN  [data |-> l.data, codigo |-> l.codigo, valor |-> l.valor,
             tem_grupo |-> tem,
             grupo |-> IF tem THEN agrupamento.linhas[l.codigo.cod] ELSE ""]]

\* variant of Series.sum(): a missing value makes the sum missing
RECURSIVE Soma_com_faltas(_, _)
Soma_com_faltas(vals, i) ==
    IF i > Len(vals) THEN R(0)
    ELSE IF IsNaN(vals[i]) THEN NaN
    ELSE IF IsNaN(Soma_com_faltas(vals, i + 1)) THEN NaN
    ELSE Add(vals[i], Soma_com_faltas(vals, i + 1))

\* Series.sum(): the sum of the values that are not missing
RECURSIVE Soma(_, _)
Soma(vals, i) ==
    IF i > Len(vals) THEN R(0)
    ELSE IF IsNaN(vals[i]) THEN Soma(vals, i + 1)
    ELSE Add(vals[i], Soma(vals, i + 1))

\* the group labels in sorted order
GruposOrdenados == <<"N", "NE", "S", "SE">>

\* df.groupby(["data", grupo]).sum().reset_index(): the rows with a missing
\* group are dropped, the others summed per (data, grupo), sorted
GroupBySum(linhas) ==
    LET com == SelectSeq(linhas, LAMBDA l : l.tem_grupo)
        datas == SortSet({com[k].data : k \in DOMAIN com})
        grupos == SelectSeq(GruposOrdenados,
                            LAMBDA g : \E k \in DOMAIN com : com[k].grupo = g)
        n == Len(grupos)
    IN  [k \in 1..(Len(datas) * n) |->
            LET d == datas[((k - 1) \div n) + 1]
                g == grupos[((k - 1) % n) + 1]
                vs == SelectSeq(com, LAMBDA l : l.data = d /\ l.grupo = g)
            IN  [data |-> d, grupo |-> g,
                 valor |-> Soma([i \in DOMAIN vs |-> vs[i].valor], 1)]]

\* VazaoENA.agrupar: [erro, frame, feitos], feitos the steps performed
agrupar(df, agrupamento) ==
    LET v == validar_agrupamento(agrupamento) IN
    IF v.erro # "" THEN [erro |-> v.erro, feitos |-> <<"validar_agrupamento">>]
    ELSE LET df_melt == Melt(df)
             df_relacao == JuntarAgrupamento(df_melt, v.tabela)
             df_agrupado == GroupBySum(df_relacao)
             gs == SelectSeq(GruposOrdenados,
                      LAMBDA g : \E k \in DOMAIN df_agrupado : df_agrupado[k].grupo = g)
             grupos == [j \in DOMAIN gs |-> Txt(gs[j])]
         IN  [erro |-> "",
              frame |-> Pivot(ValorPorGrupo(df_agrupado), grupos),
              feitos |-> <<"validar_agrupamento", "melt", "merge", "groupby", "pivot">>]

----------------------------------------------------------------------------
(* ena.py: __init__ and the validation of its tables.  The dataset passed  *)
(* to the constructor is [columns, index, vals]: columns the labels as     *)
(* passed, index the entries of the index as passed, vals the values of    *)
(* each column.  A label or an index entry is Cod(n) (a number), Str(cs)   *)
(* (a text, cs its characters) or Dia(d) (a datetime64 value, day d).      *)

\* float(x) of one label: a number stays, a text of digits is parsed, any
\* other text raises ValueError, a datetime raises TypeError
ParaFloat(x) ==
    IF "cod" \in DOMAIN x THEN [erro |-> "", rotulo |-> x]
    ELSE IF "chars" \in DOMAIN x
         THEN IF EhNumero(x.chars)
              THEN [erro |-> "", rotulo |-> Cod(ValorNumerico(x.chars, Len(x.chars)))]
              ELSE Falha("ValueError")
    ELSE Falha("TypeError")

\* dados.columns.dtype in [int, float]: every label is a number
DtypeNumerico(columns) == \A j \in DOMAIN columns : "cod" \in DOMAIN columns[j]

\* dados.columns.astype(float), label by label from the first
RECURSIVE AstypeFloat(_, _, _), GuardarRotulo(_, _, _, _)
AstypeFloat(columns, j, feitos) ==
    IF j > Len(columns) THEN [erro |-> "", rotulos |-> feitos]
    ELSE GuardarRotulo(ParaFloat(columns[j]), columns, j, feitos)

GuardarRotulo(x, columns, j, feitos) ==
    IF x.erro # "" THEN x ELSE AstypeFloat(columns, j + 1, Append(feitos, x.rotulo))

\* the days of a month of a non-leap year
DiasDoMes(m) == DiasAcumulados[m + 1] - DiasAcumulados[m]

\* the text has the form dddd-dd-dd
EhFormatoData(cs) ==
    /\ Len(cs) = 10
    /\ cs[5] = "-" /\ cs[8] = "-"
    /\ \A i \in {1, 2, 3, 4, 6, 7, 9, 10} : EhDigito(cs[i])

\* pd.to_datetime(text): the day of the year of a text yyyy-mm-dd that names
\* a day of the calendar; ValueError otherwise
ParaData(x) ==
    IF "dia" \in DOMAIN x THEN [erro |-> "", dia |-> x.dia]
    ELSE IF "chars" \in DOMAIN x /\ EhFormatoData(x.chars)
         THEN LET m == 10 * Digito(x.chars[6]) + Digito(x.chars[7])
                  d == 10 * Digito(x.chars[9]) + Digito(x.chars[10])
              IN  IF m \in 1..12 /\ d >= 1 /\ d <= DiasDoMes(m)
                  THEN [erro |-> "", dia |-> DiasAcumulados[m] + d]
                  ELSE Falha("ValueError")
    ELSE Falha("ValueError")

\* pd.api.types.is_datetime64_dtype(dados.index)
EhDatetime64(index) == \A i \in DOMAIN index : "dia" \in DOMAIN index[i]

\* pd.to_datetime(dados.index), entry by entry from the first
RECURSIVE ToDatetime(_, _, _), GuardarData(_, _, _, _)
ToDatetime(index, i, feitos) ==
    IF i > Len(index) THEN [erro |-> "", index |-> feitos]
    ELSE GuardarData(ParaData(index[i]), index, i, feitos)

GuardarData(x, index, i, feitos) ==
    IF x.erro # "" THEN x ELSE ToDatetime(index, i + 1, Append(feitos, x.dia))

\* the first block of __validar_dados__: the labels of the dataset
ValidarColunas(bruto) ==
    IF DtypeNumerico(bruto.columns) THEN [erro |-> "", rotulos |-> bruto.columns]
    ELSE AstypeFloat(bruto.columns, 1, <<>>)

\* the second block of __validar_dados__: the index, r being the outcome of
\* the first block
ValidarIndex(r, bruto) ==
    IF r.erro # "" THEN r
    ELSE [erro |-> "", rotulos |-> r.rotulos,
          index |-> IF EhDatetime64(bruto.index)
                    THEN [erro |-> "",
                          index |-> [i \in DOMAIN bruto.index |-> bruto.index[i].dia]]
                    ELSE ToDatetime(bruto.index, 1, <<>>)]

\* the dataset returned, x being the outcome of the two blocks
DadosValidados(x, bruto) ==
    IF x.erro # "" THEN x
    ELSE IF x.index.erro # "" THEN Falha(x.index.erro)
    ELSE [erro |-> "",
          frame |-> Frame(x.index.index,
                          [j \in DOMAIN x.rotulos |->
                              [nome |-> x.rotulos[j], vals |-> bruto.vals[j]]])]

\* the dataset the caller passed as __validar_dados__ leaves it: each block
\* assigns to the table that was passed, the first before the second runs
ColunasNoLugar(bruto, c) ==
    IF c.erro # "" THEN bruto ELSE [bruto EXCEPT !.columns = c.rotulos]

IndexNoLugar(b, x) ==
    IF x.erro # "" \/ x.index.erro # "" THEN b
    ELSE [b EXCEPT !.index = [i \in DOMAIN x.index.index |-> [dia |-> x.index.index[i]]]]

DadosNoLugar(bruto) ==
    IndexNoLugar(ColunasNoLugar(bruto, ValidarColunas(bruto)),
                 ValidarIndex(ValidarColunas(bruto), bruto))

\* VazaoENA.__validar_dados__
validar_dados(bruto) == DadosValidados(ValidarIndex(ValidarColunas(bruto), bruto), bruto)

\* variant of __validar_produtibilidade__: only "codigo" is required
validar_produtibilidade_so_codigo(prod) ==
    IF ~ \E i \in DOMAIN prod.colunas : prod.colunas[i] = "codigo"
    THEN Falha("ValueError")
    ELSE [erro |-> "", tabela |-> prod]

\* VazaoENA.__validar_produtibilidade__
validar_produtibilidade(prod) ==
    IF ~ \E i \in DOMAIN prod.colunas : prod.colunas[i] = "codigo"
    THEN Falha("ValueError")
    ELSE IF ~ \E i \in DOMAIN prod.colunas : prod.colunas[i] = "produtibilidade"
         THEN Falha("ValueError")
    ELSE [erro |-> "", tabela |-> prod]

\* the second statement of __init__, v being the outcome of the first
ValidarProdutibilidadeSe(v, prod) ==
    IF v.erro # "" THEN [erro |-> v.erro, feitos |-> <<"validar_dados">>]
    ELSE [erro |-> "", dados |-> v.frame, prod |-> validar_produtibilidade(prod)]

\* the object constructed, x being the outcome of the two statements
Objeto(x) ==
    IF x.erro # "" THEN x
    ELSE IF x.prod.erro # ""
         THEN [erro |-> x.prod.erro, feitos |-> <<"validar_dados", "validar_produtibilidade">>]
    ELSE [erro |-> "", dados |-> x.dados, produtibilidade |-> x.prod.tabela,
          feitos |-> <<"validar_dados", "validar_produtibilidade">>]

\* VazaoENA.__init__: [erro, dados, produtibilidade, feitos]
init(bruto, prod) == Objeto(ValidarProdutibilidadeSe(validar_dados(bruto), prod))

----------------------------------------------------------------------------
(* The inputs.  Bounds and the tables the calls are made with.             *)

\* the number of timestamps of the measured dataset
MaxDias == 2

\* 31 Jan, 1 Feb, 1 Mar, 1 Apr, 2 Apr
Datas == <<31, 32, 60, 91, 92>>
Indice == SubSeq(Datas, 1, MaxDias)

\* the measured stations, by increasing code, each with the flow it has on
\* every day unless the dataset varies it; 6 is a station no rule reads
Base ==
    <<<<Codigos.camargos, 50>>, <<6, 900>>, <<Codigos.ilha_solteira, 3000>>,
      <<Codigos.jordao, 100>>, <<Codigos.segredo, 400>>,
      <<Codigos.guarapiranga, 10>>, <<Codigos.billings, 20>>,
      <<Codigos.santa_cecilia, 200>>, <<Codigos.anta, 600>>,
      <<Codigos.ilha_pombos, 700>>, <<Codigos.edgard_souza_com_tributarios, 100>>,
      <<Codigos.moxoto, 1000>>, <<Codigos.tocos, 30>>, <<Codigos.lajes, 10>>,
      <<Codigos.barra_bonita, 500>>, <<Codigos.bariri, 550>>,
      <<Codigos.ibitinga, 600>>, <<Codigos.promissao, 650>>,
      <<Codigos.nova_avanhandava, 700>>, <<Codigos.tres_irmaos, 750>>,
      <<Codigos.jupia, 4000>>, <<Codigos.porto_primavera, 4500>>,
      <<Codigos.itiquira1, 60>>, <<Codigos.itaipu, 9000>>,
      <<Codigos.pimental, 5000>>>>

Medidos == {Base[j][1] : j \in DOMAIN Base}

\* the stations a dataset varies, each with the flows it takes in turn
Focos ==
    <<<<Codigos.santa_cecilia,
        <<R(0), R(100), R(190), R(191), R(205), R(206), R(250), R(251), R(300)>>>>,
      <<Codigos.tocos, <<R(0), R(5), R(7), R(20), R(25), R(26), R(30)>>>>,
      <<Codigos.lajes, <<R(0), R(10), R(200)>>>>,
      <<Codigos.anta,
        <<R(100), Frac(6222, 25), R(300), Frac(14722, 25), R(589), R(700)>>>>,
      <<Codigos.pimental,
        <<R(500), R(1100), R(1600), R(5000), R(15000), R(15001), R(15500), R(20000)>>>>,
      <<Codigos.jordao, <<R(0), R(10), R(100), Frac(367, 2), R(184), R(300)>>>>,
      <<Codigos.guarapiranga, <<R(10), R(15)>>>>,
      <<Codigos.billings, <<R(20), R(0)>>>>,
      <<Codigos.edgard_souza_com_tributarios, <<R(100), R(20)>>>>>>

\* the dataset in which station Focos[f] takes its i-th flow on the first
\* day, the next one on the second day, and so on
DadosFoco(f, i) ==
    LET L == Focos[f][2] IN
    Frame(Indice,
          [j \in DOMAIN Base |->
              [nome |-> Cod(Base[j][1]),
               vals |-> [k \in DOMAIN Indice |->
                   IF Base[j][1] = Focos[f][1]
                   THEN L[((i + k - 2) % Len(L)) + 1]
                   ELSE R(Base[j][2])]]])

DadosBase ==
    Frame(Indice,
          [j \in DOMAIN Base |->
              [nome |-> Cod(Base[j][1]), vals |-> [k \in DOMAIN Indice |-> R(Base[j][2])]]])

\* the base dataset without the column of station c
DadosSem(c) == Frame(Indice, SelectSeq(DadosBase.cols, LAMBDA col : col.nome # Cod(c)))

Datasets ==
    UNION {{DadosFoco(f, i) : i \in DOMAIN Focos[f][2]} : f \in DOMAIN Focos}
    \cup {DadosSem(c) : c \in Medidos}

Coeficiente(c) == Frac((c % 9) + 1, 10)

TabelaProdutibilidade(cs) ==
    [colunas |-> <<"codigo", "produtibilidade">>, linhas |-> [c \in cs |-> Coeficiente(c)]]

Produtibilidades ==
    {TabelaProdutibilidade(Medidos),
     TabelaProdutibilidade(Medidos \ {6, Codigos.guarapiranga, Codigos.pimental}),
     TabelaProdutibilidade({Codigos.traicao})}

\* productivity tables that lack a required column
ProdutibilidadesInvalidas ==
    {[colunas |-> <<"codigo">>, linhas |-> [c \in Medidos |-> Coeficiente(c)]],
     [colunas |-> <<"posto", "produtibilidade">>,
      linhas |-> [c \in Medidos |-> Coeficiente(c)]],
     [colunas |-> <<"produtibilidade">>, linhas |-> [c \in Medidos |-> Coeficiente(c)]]}

\* a validated dataset as the caller holds it: numeric labels, datetime64 index
Bruto(df) ==
    [columns |-> [j \in DOMAIN df.cols |-> df.cols[j].nome],
     index |-> [i \in DOMAIN df.index |-> Dia(df.index[i])],
     vals |-> [j \in DOMAIN df.cols |-> df.cols[j].vals]]

\* str(n) for a natural number
RECURSIVE TextoDoNumero(_)
TextoDoNumero(n) ==
    IF n < 10 THEN <<Digitos[n + 1]>>
    ELSE Append(TextoDoNumero(n \div 10), Digitos[(n % 10) + 1])

\* the day d of the year written yyyy-mm-dd
TextoDaData(d) ==
    LET m == Mes(d)
        k == d - DiasAcumulados[m]
    IN  <<"2", "0", "2", "1", "-", Digitos[(m \div 10) + 1], Digitos[(m % 10) + 1], "-",
          Digitos[(k \div 10) + 1], Digitos[(k % 10) + 1]>>

ComRotulosTexto(b) ==
    [b EXCEPT !.columns = [j \in DOMAIN b.columns |-> Str(TextoDoNumero(b.columns[j].cod))]]
ComRotulosData(b) ==
    [b EXCEPT !.columns = [j \in DOMAIN b.columns |-> Dia(j)]]
ComRotulo(b, j, x) == [b EXCEPT !.columns[j] = x]
ComIndexTexto(b) ==
    [b EXCEPT !.index = [i \in DOMAIN b.index |-> Str(TextoDaData(b.index[i].dia))]]
ComEntrada(b, i, x) == [b EXCEPT !.index[i] = x]

DadosUm == Bruto(DadosFoco(1, 1))

\* datasets whose labels or index need a conversion, or cannot have one
DadosEspeciais ==
    {ComRotulosTexto(DadosUm),
     ComIndexTexto(DadosUm),
     ComIndexTexto(ComRotulosTexto(DadosUm)),
     ComRotulo(ComRotulosTexto(DadosUm), 3, Str(<<"v", "a", "z", "a", "o">>)),
     ComRotulo(DadosUm, 1, Str(<<"1", "1", "7", "a">>)),
     ComRotulosData(DadosUm),
     ComRotulo(ComRotulosTexto(DadosUm), 2, Dia(1)),
     ComEntrada(ComIndexTexto(DadosUm), 1, Str(<<"o", "n", "t", "e", "m">>)),
     ComEntrada(ComIndexTexto(DadosUm), MaxDias,
                Str(<<"2", "0", "2", "1", "-", "0", "2", "-", "3", "0">>)),
     ComEntrada(ComIndexTexto(ComRotulosTexto(DadosUm)), 1,
                Str(<<"2", "0", "2", "1", "-", "1", "3", "-", "0", "1">>))}

DadosBrutos == {Bruto(df) : df \in Datasets} \cup DadosEspeciais

\* a mean hydrograph of Belo Monte, January to December
HidrogramaMedio == <<1100, 1600, 2500, 4000, 1800, 1200, 1000, 900, 750, 700, 800, 900>>

TabelaHidrograma(meses) ==
    [colunas |-> <<"mes", "vazao">>, linhas |-> [m \in meses |-> R(HidrogramaMedio[m])]]

HidrogramasValidos ==
    {TabelaHidrograma(1..12), TabelaHidrograma((1..12) \ {1}),
     TabelaHidrograma((1..12) \ {2})}

\* a hydrograph as a table of typed entries: integer months, float flows
Tipado(h) ==
    [colunas |-> h.colunas,
     vals |-> <<[i \in DOMAIN SortSet(DOMAIN h.linhas) |-> Inteiro(SortSet(DOMAIN h.linhas)[i])],
                [i \in DOMAIN SortSet(DOMAIN h.linhas) |->
                    Float(h.linhas[SortSet(DOMAIN h.linhas)[i]])]>>]

\* the months as texts, as read from a file without types
ComMesesTexto(t) ==
    [t EXCEPT !.vals[1] = [i \in DOMAIN t.vals[1] |-> Str(TextoDoNumero(t.vals[1][i].int))]]

\* the flows as integers
ComVazoesInteiras(t) ==
    [t EXCEPT !.vals[2] = [i \in DOMAIN t.vals[2] |-> Inteiro(t.vals[2][i].float[1])]]

ComMes(t, i, x) == [t EXCEPT !.vals[1][i] = x]
ComVazao(t, i, x) == [t EXCEPT !.vals[2][i] = x]

HidrogramasTipados == {Tipado(h) : h \in HidrogramasValidos}

HidrogramasBrutos ==
    HidrogramasTipados
    \cup {ComMesesTexto(Tipado(TabelaHidrograma(1..12))),
          ComVazoesInteiras(Tipado(TabelaHidrograma(1..12))),
          ComMes(Tipado(TabelaHidrograma(1..12)), 1, Str(<<"j", "a", "n">>)),
          ComMes(Tipado(TabelaHidrograma(1..12)), 3, Float(NaN)),
          ComVazao(ComMesesTexto(Tipado(TabelaHidrograma(1..12))), 2,
                   Str(<<"s", "/", "d">>)),
          [colunas |-> <<"mes">>, vals |-> << <<>> >>],
          [colunas |-> <<"month", "vazao">>, vals |-> << <<>>, <<>> >>]}

GrupoDoPosto(c) == GruposOrdenados[(c % 4) + 1]

TabelaAgrupamento(colunas, cs) == [colunas |-> colunas, linhas |-> [c \in cs |-> GrupoDoPosto(c)]]

Agrupamentos ==
    {TabelaAgrupamento(<<"codigo", "subsistema">>, Medidos),
     TabelaAgrupamento(<<"subsistema", "codigo">>, {c \in Medidos : c < 200}),
     TabelaAgrupamento(<<"codigo", "ree">>, {Codigos.guarapiranga, Codigos.pimental}),
     TabelaAgrupamento(<<"codigo", "ree">>, {1, 6, Codigos.guarapiranga}),
     TabelaAgrupamento(<<"codigo", "subsistema">>, {Codigos.traicao}),
     TabelaAgrupamento(<<"codigo">>, Medidos),
     TabelaAgrupamento(<<"subsistema">>, Medidos),
     TabelaAgrupamento(<<"codigo", "subsistema", "ree">>, Medidos),
     TabelaAgrupamento(<<"posto", "subsistema">>, Medidos),
     TabelaAgrupamento(<<"posto", "subsistema", "ree">>, Medidos)}

\* flows the per-value methods are called with directly
Vazoes ==
    {R(-5), R(0), Frac(1, 2), R(89), R(90), R(91), R(100), R(189), R(190), Frac(381, 2),
     R(191), R(205), Frac(411, 2), R(206), R(250), Frac(501, 2), R(251), R(300),
     R(429), R(430), Frac(43001, 100), R(431), R(1000)}

VazoesPimental ==
    {R(0), R(1099), R(1100), R(1101), R(5000), R(14999), R(15000), R(15001), R(15500),
     R(15501), R(20000)}

ValoresHidrograma == {R(1100), R(1600), NaN}

Regras ==
    Range(RegrasAltoTiete) \cup Range(RegrasParaibaSul) \cup Range(RegrasSaoFrancisco)
    \cup Range(RegrasIguacu) \cup Range(RegrasGrande) \cup Range(RegrasParaguai)
    \cup Range(RegrasXingu)

HidrogramasDe(usa) == IF usa THEN HidrogramasValidos ELSE {SemHidrograma}

----------------------------------------------------------------------------
(* The state machine.  pc is "novo" before VazaoENA is constructed,        *)
(* "falhou" when the construction raised (there is no object then),        *)
(* "construido" when it returned the object,                               *)
(* "pronto" when the object waits for a call and "feito" when a call has   *)
(* returned or raised; op, arg and ret are that call, its arguments and    *)
(* its outcome, and passos the steps it went through.                      *)

Nada == <<>>

Init ==
    /\ pc = "novo"
    /\ dados = Nada
    /\ produtibilidade = Nada
    /\ hidro = Nada
    /\ op = ""
    /\ arg = Nada
    /\ ret = Nada
    /\ passos = <<>>

\* the outcome x of VazaoENA(d, p): the object, or the exception raised;
\* ret.passado is the dataset the caller passed, as the call left it
Instanciar(d, p, x) ==
    /\ op' = "__init__"
    /\ arg' = [dados |-> d, produtibilidade |-> p]
    /\ ret' = [erro |-> x.erro, passado |-> DadosNoLugar(d)]
    /\ passos' = x.feitos
    /\ UNCHANGED hidro
    /\ IF x.erro = ""
       THEN /\ pc' = "construido"
            /\ dados' = x.dados
            /\ produtibilidade' = x.produtibilidade
       ELSE /\ pc' = "falhou"
            /\ UNCHANGED <<dados, produtibilidade>>

\* VazaoENA(d, p)
Construtor ==
    /\ pc = "novo"
    /\ \E d \in DadosBrutos, p \in Produtibilidades \cup ProdutibilidadesInvalidas :
          Instanciar(d, p, init(d, p))

\* variant of a call: it leaves every flow of the dataset of the object at 0
Chamada_zerando(nome, a, r, ps) ==
    /\ pc = "pronto"
    /\ pc' = "feito"
    /\ op' = nome
    /\ arg' = a
    /\ ret' = r
    /\ passos' = ps
    /\ dados' = Frame(dados.index,
                      [j \in DOMAIN dados.cols |->
                          [nome |-> dados.cols[j].nome,
                           vals |-> [i \in DOMAIN dados.cols[j].vals |-> R(0)]]])
    /\ UNCHANGED <<produtibilidade, hidro>>

Chamada(nome, a, r, ps) ==
    /\ pc = "pronto"
    /\ pc' = "feito"
    /\ op' = nome
    /\ arg' = a
    /\ ret' = r
    /\ passos' = ps
    /\ UNCHANGED <<dados, produtibilidade, hidro>>

\* regras.R(df).calcular() for one rule
ChamarRegra ==
    \E r \in Regras :
        \E h \in HidrogramasDe(r \in Range(RegrasXingu)) :
            Chamada("regra", [regra |-> r, hidrograma |-> h], Regra(r, dados, h), <<>>)

\* one basin composer
ChamarCompositor ==
    \E b \in Range(Bacias) :
        \E h \in HidrogramasDe(b = "xingu") :
            Chamada("compositor", [bacia |-> b, hidrograma |-> h],
                    Compositor(b, dados, h), InvocacoesDoCompositor(b, dados, h))

CalcularEna ==
    Chamada("calcular_ena", [df |-> dados], calcular_ena(dados, produtibilidade), <<>>)

\* the outcome x of a call, with the steps it went through in x.feitos
Resultado(nome, a, x) ==
    /\ op' = nome
    /\ arg' = a
    /\ ret' = [c \in DOMAIN x \ {"feitos"} |-> x[c]]
    /\ passos' = x.feitos

\* adicionar_vazoes_artificiais(h); hidro is the table the caller passed,
\* as the call leaves it
Adicionar ==
    /\ pc = "pronto"
    /\ pc' = "feito"
    /\ \E h \in HidrogramasBrutos :
          /\ Resultado("adicionar_vazoes_artificiais", [hidrograma |-> h],
                       adicionar_vazoes_artificiais(dados, h))
          /\ hidro' = validar_hidrograma(h).tabela
    /\ UNCHANGED <<dados, produtibilidade>>

\* agrupar on the table calcular_ena returned
Agrupar ==
    /\ pc = "feito"
    /\ op = "calcular_ena"
    /\ ret.erro = ""
    /\ \E a \in Agrupamentos :
          Resultado("agrupar", [df |-> ret.frame, agrupamento |-> a], agrupar(ret.frame, a))
    /\ UNCHANGED <<pc, dados, produtibilidade, hidro>>

\* BombeamentoSantaCecilia(df).bombear(v)
Bombear ==
    /\ pc = "pronto"
    /\ Construir("BombeamentoSantaCecilia", dados, SemHidrograma).erro = ""
    /\ \E v \in Vazoes :
          Chamada("bombear", [vazao |-> v],
                  [erro |-> "",
                   valor |-> BombeamentoSantaCecilia_bombear(LimitesBombeamento, v)], <<>>)

\* SimplicioArtificial(df).escolher(v)
Escolher ==
    /\ pc = "pronto"
    /\ Construir("SimplicioArtificial", dados, SemHidrograma).erro = ""
    /\ \E v \in Vazoes :
          Chamada("escolher", [vazao |-> v],
                  [erro |-> "", valor |-> SimplicioArtificial_escolher(430, v)], <<>>)

\* BeloMonteArtificial(df, hidrograma).desviar(p, h)
Desviar ==
    /\ pc = "pronto"
    /\ Construir("BeloMonteArtificial", dados, SemHidrograma).erro = ""
    /\ \E p \in VazoesPimental, h \in ValoresHidrograma :
          Chamada("desviar", [pimental |-> p, hidrograma |-> h],
                  [erro |-> "", valor |-> BeloMonteArtificial_desviar(p, h)], <<>>)

\* the caller takes the outcome; the object waits for the next call
Retornar ==
    /\ pc \in {"construido", "feito"}
    /\ pc' = "pronto"
    /\ op' = ""
    /\ arg' = Nada
    /\ ret' = Nada
    /\ passos' = <<>>
    /\ hidro' = Nada
    /\ UNCHANGED <<dados, produtibilidade>>

Next ==
    \/ Construtor
    \/ ChamarRegra
    \/ ChamarCompositor
    \/ Adicionar
    \/ CalcularEna
    \/ Agrupar
    \/ Bombear
    \/ Escolher
    \/ Desviar
    \/ Retornar

Spec == Init /\ [][Next]_vars

----------------------------------------------------------------------------
(* Properties.  Each is stated on the outcome of a call: pc = "feito",     *)
(* op the operation, arg its arguments, ret what it returned or raised.    *)

\* the station codes the construction of rule r reads from the dataset,
\* directly or through the rules it evaluates
RECURSIVE Necessarios(_)
Necessarios(r) ==
    UNION {IF "col" \in DOMAIN Passos(r)[i]
           THEN {Passos(r)[i].col}
           ELSE Necessarios(Passos(r)[i].regra) : i \in DOMAIN Passos(r)}

\* the dataset has every code some rule reads
DadosCompletos == \A r \in Regras : \A c \in Necessarios(r) : TemColuna(dados, Cod(c))

\* the output code of rule r: what it writes in its "codigo" column
CodigoDaRegra(r) ==
    Coluna(Regra(r, DadosBase, TabelaHidrograma(1..12)).frame, Txt("codigo")).vals[1][1]

ConjuntoDeRotulos(df) == {df.cols[j].nome : j \in DOMAIN df.cols}

\* C1: on a dataset with every code the rules read and a hydrograph with
\* the required fields, adicionar_vazoes_artificiais runs the 7 composers
\* to completion and returns the measured and the derived codes as columns.
C1_SeteCompositores ==
    (/\ pc = "feito"
     /\ op = "adicionar_vazoes_artificiais"
     /\ DadosCompletos
     /\ arg.hidrograma \in HidrogramasTipados)
    => /\ ret.erro = ""
       /\ passos = <<"validar_hidrograma">> \o Bacias
       /\ ConjuntoDeRotulos(ret.frame)
              = ConjuntoDeRotulos(dados) \cup {Cod(CodigoDaRegra(r)) : r \in Regras}

\* C2: the table a composer returns has one column per rule, labelled with
\* the output code of the rule, and no two columns carry the same label.
C2_RotulosDistintos ==
    (pc = "feito" /\ op = "compositor" /\ ret.erro = "")
    => LET rs == RegrasDaBacia(arg.bacia)
           f  == ret.frame
       IN  /\ Len(f.cols) = Len(rs)
           /\ \A i, j \in DOMAIN f.cols : i # j => f.cols[i].nome # f.cols[j].nome
           /\ \A i \in DOMAIN rs : f.cols[i].nome = Cod(CodigoDaRegra(rs[i]))

\* C3: a rule constructed on a dataset that lacks a code it needs, directly
\* or through an upstream rule, raises KeyError and yields no output.
C3_CodigoAusente ==
    (/\ pc = "feito"
     /\ op = "regra"
     /\ \E c \in Necessarios(arg.regra) : ~TemColuna(dados, Cod(c)))
    => ret.erro = "KeyError" /\ DOMAIN ret = {"erro"}

\* Simplicio without Santa Cecilia, which it needs through Anta Artificial
C3_Witness ==
    /\ pc = "feito"
    /\ op = "regra"
    /\ arg.regra = "SimplicioArtificial"
    /\ ~TemColuna(dados, Cod(Codigos.santa_cecilia))
    /\ \A c \in Necessarios("AntaArtificial") \ {Codigos.santa_cecilia} :
          TemColuna(dados, Cod(c))
    /\ ret.erro = "KeyError"

\* the pumped flow as documented for the thresholds 190, 205, 250
BombeamentoDocumentado(v) ==
    CASE Le(v, R(190)) -> Mul(v, Frac(119, 190))
      [] Gt(v, R(190)) /\ Le(v, R(205)) -> R(119)
      [] Gt(v, R(205)) /\ Le(v, R(250)) -> Sub(v, R(90))
      [] Gt(v, R(250)) -> R(160)

\* C4: with the default thresholds bombear gives v*119/190 up to 190, 119
\* up to 205, v - 90 up to 250 and 160 above, each boundary in the lower
\* bracket; calcular applies it to the Santa Cecilia flow of every day.
C4_Bombeamento ==
    /\ (pc = "feito" /\ op = "bombear") =>
          /\ ret.valor = BombeamentoDocumentado(arg.vazao)
          /\ arg.vazao = R(190) => ret.valor = R(119)
          /\ arg.vazao = R(205) => ret.valor = R(119)
          /\ arg.vazao = R(250) => ret.valor = R(160)
    /\ (pc = "feito" /\ op = "regra" /\ arg.regra = "BombeamentoSantaCecilia"
        /\ ret.erro = "") =>
          \A i \in DOMAIN dados.index :
              Coluna(ret.frame, Valor).vals[i]
                  = BombeamentoDocumentado(
                        Coluna(dados, Cod(Codigos.santa_cecilia)).vals[i])

\* calcular on a day where Santa Cecilia is exactly at the limit 205
C4_Witness ==
    /\ pc = "feito"
    /\ op = "regra"
    /\ arg.regra = "BombeamentoSantaCecilia"
    /\ ret.erro = ""
    /\ \E i \in DOMAIN dados.index :
          /\ Coluna(dados, Cod(Codigos.santa_cecilia)).vals[i] = R(205)
          /\ Coluna(ret.frame, Valor).vals[i] = R(119)

\* max(0, v - 90) up to 430 and 340 above
SimplicioDocumentado(v) ==
    IF Le(v, R(430))
    THEN (IF Gt(Sub(v, R(90)), R(0)) THEN Sub(v, R(90)) ELSE R(0))
    ELSE R(340)

\* C5: with the default limit escolher gives max(0, v - 90) up to 430 and
\* 340 above, so 340 at 430 and a value in [0, 340] always; calcular applies
\* it to the Anta Artificial flow of every day.
C5_Simplicio ==
    /\ (pc = "feito" /\ op = "escolher") =>
          /\ ret.valor = SimplicioDocumentado(arg.vazao)
          /\ arg.vazao = R(430) => ret.valor = R(340)
          /\ Le(R(0), ret.valor) /\ Le(ret.valor, R(340))
    /\ (pc = "feito" /\ op = "regra" /\ arg.regra = "SimplicioArtificial"
        /\ ret.erro = "") =>
          LET anta == Coluna(Regra("AntaArtificial", dados, SemHidrograma).frame, Valor)
          IN  \A i \in DOMAIN dados.index :
                  /\ Coluna(ret.frame, Valor).vals[i] = SimplicioDocumentado(anta.vals[i])
                  /\ Le(R(0), Coluna(ret.frame, Valor).vals[i])
                  /\ Le(Coluna(ret.frame, Valor).vals[i], R(340))

\* escolher at the limit itself
C5_Witness ==
    /\ pc = "feito"
    /\ op = "escolher"
    /\ arg.vazao = R(430)
    /\ ret.valor = R(340)

\* the diversion as documented, for a hydrograph value h
DesvioDocumentado(p, h) ==
    CASE Lt(p, h) -> R(0)
      [] Gt(p, Add(h, R(13900))) -> R(13900)
      [] OTHER -> Sub(p, h)

\* C6: the Belo Monte diversion of a day is 0 when Pimental is below the
\* hydrograph value h of the month of the day, 13900 when it is above
\* h + 13900 and p - h otherwise: 13900 at p = h + 13900 and 0 at p = h.
C6_BeloMonte ==
    /\ (pc = "feito" /\ op = "desviar" /\ ~IsNaN(arg.hidrograma)) =>
          /\ ret.valor = DesvioDocumentado(arg.pimental, arg.hidrograma)
          /\ arg.pimental = Add(arg.hidrograma, R(13900)) => ret.valor = R(13900)
          /\ arg.pimental = arg.hidrograma => ret.valor = R(0)
    /\ (pc = "feito" /\ op = "regra" /\ arg.regra = "BeloMonteArtificial"
        /\ ret.erro = "") =>
          \A i \in DOMAIN dados.index :
              LET m == Mes(dados.index[i])
                  p == Coluna(dados, Cod(Codigos.pimental)).vals[i]
              IN  m \in DOMAIN arg.hidrograma.linhas =>
                      Coluna(ret.frame, Valor).vals[i]
                          = DesvioDocumentado(p, arg.hidrograma.linhas[m])

\* calcular on 1 February with Pimental at the February value plus 13900
C6_Witness ==
    /\ pc = "feito"
    /\ op = "regra"
    /\ arg.regra = "BeloMonteArtificial"
    /\ ret.erro = ""
    /\ \E i \in DOMAIN dados.index :
          /\ Mes(dados.index[i]) = 2
          /\ 2 \in DOMAIN arg.hidrograma.linhas
          /\ Coluna(dados, Cod(Codigos.pimental)).vals[i]
                 = Add(arg.hidrograma.linhas[2], R(13900))
          /\ Coluna(ret.frame, Valor).vals[i] = R(13900)

\* the outcome of the Xingu composer: the first column is the Belo Monte
\* Artificial flow and the third the Pimental Artificial flow
XinguFeito == pc = "feito" /\ op = "compositor" /\ arg.bacia = "xingu" /\ ret.erro = ""

Conserva(i) ==
    Add(ret.frame.cols[3].vals[i], ret.frame.cols[1].vals[i])
        = Coluna(dados, Cod(Codigos.pimental)).vals[i]

\* C7 as stated: at every timestamp Pimental Artificial plus Belo Monte
\* Artificial is the measured Pimental flow.
C7_Conservacao == XinguFeito => \A i \in DOMAIN dados.index : Conserva(i)

\* C7, for the timestamps whose month has a row in the hydrograph: Pimental
\* Artificial plus Belo Monte Artificial is the measured Pimental flow.
C7_ConservacaoComHidrograma ==
    XinguFeito =>
        \A i \in DOMAIN dados.index :
            Mes(dados.index[i]) \in DOMAIN arg.hidrograma.linhas => Conserva(i)

\* a day on which part of Pimental is diverted and part is not
C7_Witness ==
    /\ XinguFeito
    /\ \E i \in DOMAIN dados.index :
          /\ Mes(dados.index[i]) \in DOMAIN arg.hidrograma.linhas
          /\ Gt(ret.frame.cols[1].vals[i], R(0))
          /\ Gt(ret.frame.cols[3].vals[i], R(0))
          /\ Conserva(i)

\* C8: calcular_ena gives flow * p for every timestamp and every code with
\* a productivity p, and a missing value, never 0, for every code without
\* one; it raises no error.
C8_Ena ==
    (pc = "feito" /\ op = "calcular_ena") =>
        /\ ret.erro = ""
        /\ ret.frame.index = arg.df.index
        /\ \A j \in DOMAIN arg.df.cols :
              LET c == arg.df.cols[j].nome IN
              /\ TemColuna(ret.frame, c)
              /\ \A i \in DOMAIN arg.df.index :
                    LET e == Coluna(ret.frame, c).vals[i] IN
                    IF c.cod \in DOMAIN produtibilidade.linhas
                    THEN e = Mul(arg.df.cols[j].vals[i], produtibilidade.linhas[c.cod])
                    ELSE IsNaN(e) /\ e # R(0)

\* a flow table with a code that has a coefficient and one that has none
C8_Witness ==
    /\ pc = "feito"
    /\ op = "calcular_ena"
    /\ \E j \in DOMAIN arg.df.cols :
          /\ arg.df.cols[j].nome.cod \notin DOMAIN produtibilidade.linhas
          /\ IsNaN(Coluna(ret.frame, arg.df.cols[j].nome).vals[1])
    /\ \E j \in DOMAIN arg.df.cols :
          /\ arg.df.cols[j].nome.cod \in DOMAIN produtibilidade.linhas
          /\ Gt(Coluna(ret.frame, arg.df.cols[j].nome).vals[1], R(0))

\* the sum of the values of the row of date d, 0 when there is no such row
SomaDaLinha(df, d) ==
    IF \E i \in DOMAIN df.index : df.index[i] = d
    THEN LET i == CHOOSE k \in DOMAIN df.index : df.index[k] = d
         IN  Soma([j \in DOMAIN df.cols |-> df.cols[j].vals[i]], 1)
    ELSE R(0)

\* the columns of the ENA table whose code has a row in the grouping table
ComGrupo(df, agrupamento) ==
    Frame(df.index,
          SelectSeq(df.cols, LAMBDA col : col.nome.cod \in DOMAIN agrupamento.linhas))

\* C9: at every timestamp the grouped ENA summed over the groups is the sum
\* of the ENA of the stations whose code is in the grouping table; the
\* other stations count in no group.
C9_SomaDosGrupos ==
    (pc = "feito" /\ op = "agrupar" /\ ret.erro = "") =>
        \A i \in DOMAIN arg.df.index :
            SomaDaLinha(ret.frame, arg.df.index[i])
                = SomaDaLinha(ComGrupo(arg.df, arg.agrupamento), arg.df.index[i])

\* two groups at least, and a station with ENA that is in no group
C9_Witness ==
    /\ pc = "feito"
    /\ op = "agrupar"
    /\ ret.erro = ""
    /\ Len(ret.frame.cols) >= 2
    /\ \E j \in DOMAIN arg.df.cols :
          /\ arg.df.cols[j].nome.cod \notin DOMAIN arg.agrupamento.linhas
          /\ Gt(arg.df.cols[j].vals[1], R(0))
    /\ Gt(SomaDaLinha(ret.frame, arg.df.index[1]), R(0))

\* the grouping table has 2 columns, one of them "codigo"
AgrupamentoValido(a) ==
    Len(a.colunas) = 2 /\ \E i \in DOMAIN a.colunas : a.colunas[i] = "codigo"

\* C10: agrupar raises ValueError before any reshape or join when the
\* grouping table has not exactly 2 columns or has no "codigo" column, and
\* goes on to the join only when it has both.
C10_ValidacaoAntes ==
    (pc = "feito" /\ op = "agrupar") =>
        IF AgrupamentoValido(arg.agrupamento)
        THEN ret.erro = "" /\ \E k \in DOMAIN passos : passos[k] = "merge"
        ELSE /\ ret.erro = "ValueError"
             /\ DOMAIN ret = {"erro"}
             /\ passos = <<"validar_agrupamento">>

\* a table with a "codigo" column and three columns in all
C10_Witness ==
    /\ pc = "feito"
    /\ op = "agrupar"
    /\ Len(arg.agrupamento.colunas) = 3
    /\ \E i \in DOMAIN arg.agrupamento.colunas : arg.agrupamento.colunas[i] = "codigo"
    /\ ret.erro = "ValueError"
    /\ passos = <<"validar_agrupamento">>

\* the calls that evaluate rules
Derivacoes ==
    {"regra", "compositor", "adicionar_vazoes_artificiais", "bombear", "escolher", "desviar"}

\* the dataset has numeric labels and a date index
DadosSaoValidos(df) ==
    /\ \A j \in DOMAIN df.cols : "cod" \in DOMAIN df.cols[j].nome
    /\ \A i \in DOMAIN df.index : df.index[i] \in 1..365

TemColunas(tabela, nomes) ==
    \A n \in nomes : \E i \in DOMAIN tabela.colunas : tabela.colunas[i] = n

Validacoes == {"validar_dados", "validar_produtibilidade", "validar_hidrograma"}

\* the entry can be made a value of the type: a number, or the text of one
EntradaNumerica(x, tipo) ==
    \/ "chars" \in DOMAIN x /\ EhNumero(x.chars)
    \/ "int" \in DOMAIN x
    \/ "float" \in DOMAIN x /\ (tipo = "float" \/ ~IsNaN(x.float))

\* the hydrograph has its two columns, of months and of flows
HidrogramaValido(h) ==
    /\ TemColunas(h, {"mes", "vazao"})
    /\ \A i \in DOMAIN ColunaDe(h, "mes") : EntradaNumerica(ColunaDe(h, "mes")[i], "int")
    /\ \A i \in DOMAIN ColunaDe(h, "vazao") :
          EntradaNumerica(ColunaDe(h, "vazao")[i], "float")

\* C11: a rule or a composer is evaluated only on an object whose dataset
\* and productivity table passed the validation of the constructor, and in
\* adicionar_vazoes_artificiais only after the hydrograph passed its own;
\* a call in which a validation fails evaluates no rule.
C11_ValidacaoPrecede ==
    /\ op \in Derivacoes =>
          /\ pc = "feito"
          /\ DadosSaoValidos(dados)
          /\ TemColunas(produtibilidade, {"codigo", "produtibilidade"})
    /\ op = "__init__" =>
          /\ passos[1] = "validar_dados"
          /\ \A k \in DOMAIN passos : passos[k] \in Validacoes
    /\ pc = "falhou" => op = "__init__" /\ ret.erro # "" /\ dados = Nada
    /\ op = "adicionar_vazoes_artificiais" =>
          /\ passos[1] = "validar_hidrograma"
          /\ IF HidrogramaValido(arg.hidrograma)
             THEN Len(passos) > 1
             ELSE passos = <<"validar_hidrograma">> /\ ret = [erro |-> "ValueError"]

\* adicionar_vazoes_artificiais with a hydrograph that has no "vazao" column
C11_Witness ==
    /\ pc = "feito"
    /\ op = "adicionar_vazoes_artificiais"
    /\ ~TemColunas(arg.hidrograma, {"vazao"})
    /\ passos = <<"validar_hidrograma">>
    /\ ret.erro = "ValueError"

Dependencias(r) ==
    {Passos(r)[i].regra : i \in {k \in DOMAIN Passos(r) : "regra" \in DOMAIN Passos(r)[k]}}

\* C13: in every composer a rule is invoked only after every rule whose
\* output it consumes was invoked by an earlier statement of that composer:
\* the list of statements of each composer is a topological order of the
\* dependencies between its rules (so they have no cycle), and every
\* invocation of a pass, nested ones included, comes after a statement of
\* the composer invoked each rule it consumes.
C13_OrdemTopologica ==
    /\ \A b \in Range(Bacias) :
          \A i \in DOMAIN RegrasDaBacia(b) :
              \A d \in Dependencias(RegrasDaBacia(b)[i]) :
                  \E j \in 1..(i - 1) : RegrasDaBacia(b)[j] = d
    /\ (pc = "feito" /\ op = "compositor") =>
          \A k \in DOMAIN passos :
              \A d \in Dependencias(passos[k].regra) :
                  \E j \in 1..(k - 1) : passos[j] = Invocacao(d, 0)

\* a finished pass of the Paraiba do Sul composer: its last statement
\* invoked PereiraPassosArtificial, which consumes two other rules
C13_Witness ==
    /\ pc = "feito"
    /\ op = "compositor"
    /\ arg.bacia = "paraiba_sul"
    /\ ret.erro = ""
    /\ \E k \in DOMAIN passos : passos[k] = Invocacao("PereiraPassosArtificial", 0)

\* the label is a number or the text of one
RotuloCoercivel(x) == "cod" \in DOMAIN x \/ ("chars" \in DOMAIN x /\ EhNumero(x.chars))

\* the entry is a date or the text of one
EntradaCoercivel(x) == "dia" \in DOMAIN x \/ ParaData(x).erro = ""

DadosCoerciveis(bruto) ==
    /\ \A j \in DOMAIN bruto.columns : RotuloCoercivel(bruto.columns[j])
    /\ \A i \in DOMAIN bruto.index : EntradaCoercivel(bruto.index[i])

\* C14: the construction with a dataset whose labels cannot be made numeric
\* codes or whose index cannot be made dates ends in ValueError and leaves
\* no object; with labels and index that can (and a productivity table with
\* its two columns) it succeeds, and the dataset stored has numeric labels
\* and a date index.
C14_ValidacaoDosDados ==
    (op = "__init__" /\ TemColunas(arg.produtibilidade, {"codigo", "produtibilidade"})) =>
        IF DadosCoerciveis(arg.dados)
        THEN pc = "construido" /\ ret.erro = "" /\ DadosSaoValidos(dados)
        ELSE pc = "falhou" /\ ret.erro = "ValueError" /\ dados = Nada

\* C15: a productivity table without its code or its productivity column
\* makes the construction end in an error and leaves no object, so that no
\* call can return a table; a hydrograph without its month or its flow
\* column makes adicionar_vazoes_artificiais end in an error, without a table.
C15_ColunasNecessarias ==
    /\ (op = "__init__" /\ ~TemColunas(arg.produtibilidade, {"codigo", "produtibilidade"})) =>
          /\ pc = "falhou"
          /\ ret.erro # ""
          /\ dados = Nada /\ produtibilidade = Nada
    /\ pc = "falhou" => "frame" \notin DOMAIN ret /\ ~ENABLED Next
    /\ (op = "adicionar_vazoes_artificiais" /\ ~TemColunas(arg.hidrograma, {"mes", "vazao"})) =>
          ret.erro # "" /\ "frame" \notin DOMAIN ret

\* the construction, given a dataset that passes and a productivity table
\* without a column, raised in the second validation
C15_Witness ==
    /\ pc = "falhou"
    /\ DadosCoerciveis(arg.dados)
    /\ ~TemColunas(arg.produtibilidade, {"codigo", "produtibilidade"})
    /\ passos = <<"validar_dados", "validar_produtibilidade">>
    /\ ret.erro = "ValueError"

\* a == b in Python for two entries: numbers by value, texts by their characters
MesmoValor(x, y) ==
    IF "chars" \in DOMAIN x \/ "chars" \in DOMAIN y THEN x = y
    ELSE (IF "int" \in DOMAIN x THEN R(x.int) ELSE x.float)
             = (IF "int" \in DOMAIN y THEN R(y.int) ELSE y.float)

\* the same columns and, by ==, the same values
MesmaTabela(t, u) ==
    /\ t.colunas = u.colunas
    /\ \A j \in DOMAIN t.vals :
          /\ DOMAIN t.vals[j] = DOMAIN u.vals[j]
          /\ \A i \in DOMAIN t.vals[j] : MesmoValor(t.vals[j][i], u.vals[j][i])

\* C16: evaluating rules has no side effect on their inputs: a call of a
\* rule, of a composer or of adicionar_vazoes_artificiais leaves the dataset
\* of the object as it was, and adicionar_vazoes_artificiais leaves the
\* hydrograph it was passed with the columns and the values it had.
C16_SemEfeito ==
    [][pc = "pronto" =>
          /\ dados' = dados
          /\ op' = "adicionar_vazoes_artificiais" => MesmaTabela(hidro', arg'.hidrograma)]_vars

\* C17: in the table the Alto Tiete composer returns, the series of station
\* code 104 (Traicao) can be selected by that code and holds, at every
\* timestamp, Guarapiranga plus Billings.
C17_Traicao ==
    (pc = "feito" /\ op = "compositor" /\ arg.bacia = "alto_tiete" /\ ret.erro = "") =>
        /\ Selecionar(ret.frame, Cod(Codigos.traicao)).erro = ""
        /\ \A i \in DOMAIN dados.index :
              Selecionar(ret.frame, Cod(Codigos.traicao)).serie.vals[i]
                  = Add(Coluna(dados, Cod(Codigos.guarapiranga)).vals[i],
                        Coluna(dados, Cod(Codigos.billings)).vals[i])

\* the rules of the cascade downstream of Billings, each with the code of
\* the measured flow of its own station
Cascata ==
    [BarraBonitaArtificial |-> Codigos.barra_bonita,
     BaririArtificial |-> Codigos.bariri,
     IbitingaArtificial |-> Codigos.ibitinga,
     PromissaoArtificial |-> Codigos.promissao,
     NovaAvanhandavaArtificial |-> Codigos.nova_avanhandava,
     TresIrmaosArtificial |-> Codigos.tres_irmaos,
     IlhaSolteiraEquivalente |-> Codigos.ilha_solteira,
     JupiaArtificial |-> Codigos.jupia,
     PortoPrimaveraArtificial |-> Codigos.porto_primavera,
     ItaipuArtificial |-> Codigos.itaipu]

Medido(c, i) == Coluna(dados, Cod(c)).vals[i]

\* 0.1 * (EdgardSouza - Guarapiranga - Billings) + Guarapiranga + Billings
Parcela(i) ==
    Add(Add(Mul(Frac(1, 10),
                Sub(Sub(Medido(Codigos.edgard_souza_com_tributarios, i),
                        Medido(Codigos.guarapiranga, i)),
                    Medido(Codigos.billings, i))),
            Medido(Codigos.guarapiranga, i)),
        Medido(Codigos.billings, i))

\* the output at timestamp i is m minus the correction term, Guarapiranga
\* and Billings, and with the output of Billings Artificial it adds up to m
SaidaDaCascata(m, i) ==
    /\ Coluna(ret.frame, Valor).vals[i] = Sub(m, Parcela(i))
    /\ Add(Coluna(ret.frame, Valor).vals[i],
           Coluna(Regra("BillingsArtificial", dados, SemHidrograma).frame, Valor).vals[i]) = m

CascataFeita ==
    /\ pc = "feito"
    /\ op = "regra"
    /\ arg.regra \in DOMAIN Cascata
    /\ ret.erro = ""

\* C18 as stated: every rule of the cascade outputs the measured flow of
\* its own station minus 0.1 * (EdgardSouza - Guarapiranga - Billings),
\* Guarapiranga and Billings, so that its output plus the output of
\* Billings Artificial is that measured flow.
C18_Cascata ==
    CascataFeita =>
        \A i \in DOMAIN dados.index : SaidaDaCascata(Medido(Cascata[arg.regra], i), i)

\* the flow the rule subtracts from: the measured flow of its station and,
\* for Ilha Solteira Equivalente, that of Tres Irmaos added to it
Minuendo(r, i) ==
    IF r = "IlhaSolteiraEquivalente"
    THEN Add(Medido(Codigos.tres_irmaos, i), Medido(Codigos.ilha_solteira, i))
    ELSE Medido(Cascata[r], i)

\* C18, with the flow Ilha Solteira Equivalente subtracts from: every rule
\* of the cascade outputs that flow minus the correction term, Guarapiranga
\* and Billings, and its output plus the output of Billings Artificial is
\* that flow.
C18_CascataEquivalente ==
    CascataFeita => \A i \in DOMAIN dados.index : SaidaDaCascata(Minuendo(arg.regra, i), i)

\* Ilha Solteira Equivalente evaluated where Tres Irmaos has a flow and the
\* correction term is not zero
C18_Witness ==
    /\ CascataFeita
    /\ arg.regra = "IlhaSolteiraEquivalente"
    /\ Gt(Medido(Codigos.tres_irmaos, 1), R(0))
    /\ Parcela(1) # Add(Medido(Codigos.guarapiranga, 1), Medido(Codigos.billings, 1))

\* the number of invocations of rule r in a pass
Vezes(r) == Cardinality({k \in DOMAIN passos : passos[k].regra = r})

\* the rules of the basin that other rules of the basin consume
Consumidas(b) ==
    UNION {Dependencias(RegrasDaBacia(b)[i]) : i \in DOMAIN RegrasDaBacia(b)}

\* C19: in a pass of a composer that ran to its end, each rule that other
\* rules consume is computed exactly once.
C19_UmaVez ==
    (pc = "feito" /\ op = "compositor" /\ ret.erro = "") =>
        \A r \in Consumidas(arg.bacia) : Vezes(r) = 1

\* the code each rule writes in the "codigo" column of its output
CodigosDeSaida == [r \in Regras |-> CodigoDaRegra(r)]

\* the codes the rules read from the dataset as measured flows
Lidos ==
    UNION {{Passos(r)[i].col : i \in {k \in DOMAIN Passos(r) : "col" \in DOMAIN Passos(r)[k]}} :
              r \in Regras}

\* C20: every derived code is produced by exactly one rule: the code a rule
\* writes at every timestamp of its output is written by no other rule of
\* the 7 composers and read by no rule as a measured flow, and no two names
\* of the registry of codes share a code.
C20_UmaRegraPorCodigo ==
    /\ Cardinality({Codigos[n] : n \in DOMAIN Codigos}) = Cardinality(DOMAIN Codigos)
    /\ (pc = "feito" /\ op = "regra" /\ ret.erro = "") =>
          /\ \A i \in DOMAIN dados.index :
                Coluna(ret.frame, Txt("codigo")).vals[i] = R(CodigosDeSaida[arg.regra])
          /\ \A r \in Regras \ {arg.regra} : CodigosDeSaida[r] # CodigosDeSaida[arg.regra]
          /\ CodigosDeSaida[arg.regra] \notin Lidos
          /\ \E n \in DOMAIN Codigos : Codigos[n] = CodigosDeSaida[arg.regra]

\* Lajes Artificial evaluated: its code 132 is derived, the code 202 of
\* Lajes is read as measured
C20_Witness ==
    /\ pc = "feito"
    /\ op = "regra"
    /\ arg.regra = "LajesArtificial"
    /\ ret.erro = ""
    /\ Coluna(ret.frame, Txt("codigo")).vals[1] = R(Codigos.lajes_artificial)
    /\ Codigos.lajes \in Lidos

\* orders of the composer statements other than the one of the source: its
\* reverse, and one that runs the composers ending in to_frame last
Ordens ==
    {<<"xingu", "paraguai", "grande", "iguacu", "sao_francisco", "paraiba_sul",
       "alto_tiete">>,
     <<"xingu", "paraiba_sul", "sao_francisco", "alto_tiete", "iguacu", "paraguai",
       "grande">>}

\* every composer that ran in the order gave what it gives on the dataset
\* of the object alone
MesmasSaidas(corrida, h) ==
    \A k \in DOMAIN corrida :
        corrida[k].saida = Compositor(corrida[k].bacia, dados, h)

ValorDaRegra(r) == Coluna(Regra(r, dados, SemHidrograma).frame, Valor).vals

\* lajes when lajes < 17, and 17 + min(vigario - nilo_pecanha, 34) otherwise
FontesDocumentado(lajes, vigario, nilo_pecanha) ==
    IF lajes[1] < 17 * lajes[2] THEN lajes
    ELSE IF Lt(Sub(vigario, nilo_pecanha), R(34))
         THEN Add(R(17), Sub(vigario, nilo_pecanha))
         ELSE R(51)

FontesFeita == pc = "feito" /\ op = "regra" /\ arg.regra = "FontesArtificial" /\ ret.erro = ""

\* C22: Fontes Artificial is, at every timestamp, lajes when lajes < 17 and
\* 17 + min(vigario - nilo_pecanha, 34) otherwise, lajes = 17 included,
\* for the values of Lajes Artificial, Vigario Artificial and Nilo Pecanha
\* Artificial at that timestamp.
C22_Fontes ==
    FontesFeita =>
        \A i \in DOMAIN dados.index :
            Coluna(ret.frame, Valor).vals[i]
                = FontesDocumentado(ValorDaRegra("LajesArtificial")[i],
                                    ValorDaRegra("VigarioArtificial")[i],
                                    ValorDaRegra("NiloPecanhaArtificial")[i])

\* Lajes Artificial is 15 on one day and 17 on the next
C22_Witness ==
    /\ FontesFeita
    /\ ValorDaRegra("LajesArtificial")[1] = R(15)
    /\ Coluna(ret.frame, Valor).vals[1] = R(15)
    /\ ValorDaRegra("LajesArtificial")[2] = R(17)
    /\ Coluna(ret.frame, Valor).vals[2]
           = Add(R(17), Sub(ValorDaRegra("VigarioArtificial")[2],
                            ValorDaRegra("NiloPecanhaArtificial")[2]))

\* the smaller of a defined flow and a limit
Minimo(a, k) == IF a[1] < k * a[2] THEN a ELSE R(k)

NiloFeita ==
    pc = "feito" /\ op = "regra" /\ arg.regra = "NiloPecanhaArtificial" /\ ret.erro = ""

\* C23: at every timestamp Vigario Artificial is min(Santana Artificial,
\* 190) and Nilo Pecanha Artificial is min(Vigario Artificial, 144), so
\* that Nilo Pecanha <= Vigario <= 190, Nilo Pecanha <= 144 and Vigario <=
\* Santana Artificial.
C23_Limites ==
    NiloFeita =>
        \A i \in DOMAIN dados.index :
            /\ ValorDaRegra("VigarioArtificial")[i]
                   = Minimo(ValorDaRegra("SantanaArtificial")[i], 190)
            /\ Coluna(ret.frame, Valor).vals[i]
                   = Minimo(ValorDaRegra("VigarioArtificial")[i], 144)
            /\ Le(Coluna(ret.frame, Valor).vals[i], ValorDaRegra("VigarioArtificial")[i])
            /\ Le(ValorDaRegra("VigarioArtificial")[i], R(190))
            /\ Le(Coluna(ret.frame, Valor).vals[i], R(144))
            /\ Le(ValorDaRegra("VigarioArtificial")[i],
                  ValorDaRegra("SantanaArtificial")[i])

\* Santana Artificial above 190: both limits apply
C23_Witness ==
    /\ NiloFeita
    /\ \E i \in DOMAIN dados.index :
          /\ Gt(ValorDaRegra("SantanaArtificial")[i], R(190))
          /\ ValorDaRegra("VigarioArtificial")[i] = R(190)
          /\ Coluna(ret.frame, Valor).vals[i] = R(144)

\* the rules listed as taking the result of another rule, Segredo apart
Dependentes ==
    {"Pedras", "HenryBorden", "SantanaArtificial", "VigarioArtificial",
     "VertimentoSantana", "AntaArtificial", "SimplicioArtificial",
     "IlhaPombosArtificial", "NiloPecanhaArtificial", "FontesArtificial",
     "PereiraPassosArtificial", "PimentalArtificial"}

\* one of the fields campos that the __init__ of a rule set is the "valor"
\* column that rule u returns on the dataset with hydrograph h
CampoDe(campos, u, h) ==
    \E campo \in DOMAIN campos : campos[campo] = ValorSe(Regra(u, dados, h)).serie

\* rule r, called on the dataset with hydrograph h, invokes rule u and keeps
\* the "valor" column u returned in one of its fields
ConsomeDe(r, u, h) ==
    u \in Dependencias(r) /\ CampoDe(Construir(r, dados, h).campos, u, h)

\* rule r takes the output of at least one other rule
Consome(r, h) == \E u \in Dependencias(r) \ {r} : ConsomeDe(r, u, h)

RegraFeita == pc = "feito" /\ op = "regra" /\ ret.erro = ""

\* C24 as stated: each of the thirteen rules takes the output of another
\* rule as an input, Segredo Artificial that of Jordao Artificial.
C24_Dependentes ==
    RegraFeita =>
        /\ arg.regra \in Dependentes => Consome(arg.regra, arg.hidrograma)
        /\ arg.regra = "SegredoArtificial"
               => ConsomeDe("SegredoArtificial", "JordaoArtificial", SemHidrograma)

\* C24: each of the twelve rules other than Segredo Artificial takes the
\* output of at least one other rule as an input; Segredo Artificial
\* invokes no other rule and is computed from the measured columns of
\* Segredo and Jordao alone.
C24_DependentesMedidos ==
    RegraFeita =>
        /\ arg.regra \in Dependentes => Consome(arg.regra, arg.hidrograma)
        /\ arg.regra = "SegredoArtificial" =>
              /\ Dependencias("SegredoArtificial") = {}
              /\ Construir("SegredoArtificial", dados, SemHidrograma).campos
                     = [segredo |-> Selecionar(dados, Cod(Codigos.segredo)).serie,
                        jordao |-> Selecionar(dados, Cod(Codigos.jordao)).serie]

\* Segredo Artificial computed where Jordao Artificial differs from Jordao
C24_Witness ==
    /\ RegraFeita /\ arg.regra = "SegredoArtificial"
    /\ ValorDaRegra("JordaoArtificial")
           # Selecionar(dados, Cod(Codigos.jordao)).serie.vals

\* the hydrograph passed and the hydrograph the caller holds after the call
\* differ in column k
ColunaTrocada(antes, depois, k) == antes.vals[k] # depois.vals[k]

\* C25: when the validation of an input table raises, the table the caller
\* passed is as it was before the call: the labels of the dataset when the
\* conversion of its index raises, every column of the hydrograph when
\* __validar_hidrograma__ raises.
C25_TabelaIntacta ==
    /\ (pc = "falhou" /\ passos = <<"validar_dados">>)
           => ret.passado.columns = arg.dados.columns
    /\ (pc = "feito" /\ op = "adicionar_vazoes_artificiais"
            /\ validar_hidrograma(arg.hidrograma).erro # "")
           => \A k \in DOMAIN arg.hidrograma.vals :
                  ~ColunaTrocada(arg.hidrograma, hidro, k)

\* column c of the ENA table belongs to group g of the grouping table a
NoGrupo(c, a, g) ==
    /\ "cod" \in DOMAIN c.nome
    /\ c.nome.cod \in DOMAIN a.linhas
    /\ Txt(a.linhas[c.nome.cod]) = g

\* what station column c adds to group g at timestamp i: its ENA, zero when
\* the ENA is missing
Contribuicao(c, a, g, i) ==
    IF NoGrupo(c, a, g) /\ ~IsNaN(c.vals[i]) THEN c.vals[i] ELSE R(0)

RECURSIVE SomaDoGrupo(_, _, _, _, _)
SomaDoGrupo(df, a, g, i, j) ==
    IF j > Len(df.cols) THEN R(0)
    ELSE Add(Contribuicao(df.cols[j], a, g, i), SomaDoGrupo(df, a, g, i, j + 1))

\* every station of group g has a missing ENA at timestamp i
TodasFaltam(df, a, g, i) ==
    \A j \in DOMAIN df.cols : NoGrupo(df.cols[j], a, g) => IsNaN(df.cols[j].vals[i])

AgruparFeito == pc = "feito" /\ op = "agrupar" /\ ret.erro = ""

\* C26: in agrupar a station whose ENA is missing at a timestamp adds zero
\* to the sum of its group, and a group all of whose stations have a
\* missing ENA gets 0, not a missing value.
C26_FaltaSomaZero ==
    AgruparFeito =>
        \A j \in DOMAIN ret.frame.cols, i \in DOMAIN ret.frame.index :
            /\ ret.frame.cols[j].vals[i]
                   = SomaDoGrupo(arg.df, arg.agrupamento, ret.frame.cols[j].nome, i, 1)
            /\ TodasFaltam(arg.df, arg.agrupamento, ret.frame.cols[j].nome, i)
                   => ret.frame.cols[j].vals[i] = R(0)

\* one group with every ENA missing, another with some missing and a sum
\* that is not zero
C26_Witness ==
    /\ AgruparFeito
    /\ \E j \in DOMAIN ret.frame.cols :
          /\ TodasFaltam(arg.df, arg.agrupamento, ret.frame.cols[j].nome, 1)
          /\ ret.frame.cols[j].vals[1] = R(0)
    /\ \E j \in DOMAIN ret.frame.cols :
          /\ \E k \in DOMAIN arg.df.cols :
                /\ NoGrupo(arg.df.cols[k], arg.agrupamento, ret.frame.cols[j].nome)
                /\ IsNaN(arg.df.cols[k].vals[1])
          /\ ret.frame.cols[j].vals[1] # R(0)

\* the month of timestamp i has no row in hydrograph h
SemLinha(h, i) == Mes(dados.index[i]) \notin DOMAIN h.linhas

TemPimental == TemColuna(dados, Cod(Codigos.pimental))

\* C27: a hydrograph with both required columns and no row for some month
\* of the dataset passes the validation; on every day of such a month Belo
\* Monte Artificial and Pimental Artificial are missing values, and neither
\* the validation nor the two rules nor the Xingu composer raises.
C27_MesSemLinha ==
    /\ (pc = "feito" /\ op = "adicionar_vazoes_artificiais"
            /\ arg.hidrograma \in HidrogramasTipados)
           => /\ validar_hidrograma(arg.hidrograma).erro = ""
              /\ PorMes(hidro) \in HidrogramasValidos
    /\ (pc = "feito" /\ op = "regra" /\ TemPimental
            /\ arg.regra \in {"BeloMonteArtificial", "PimentalArtificial"})
           => /\ ret.erro = ""
              /\ \A i \in DOMAIN dados.index :
                    SemLinha(arg.hidrograma, i) => IsNaN(Coluna(ret.frame, Valor).vals[i])
    /\ (pc = "feito" /\ op = "compositor" /\ arg.bacia = "xingu" /\ TemPimental)
           => /\ ret.erro = ""
              /\ \A i \in DOMAIN dados.index :
                    SemLinha(arg.hidrograma, i)
                        => IsNaN(ret.frame.cols[1].vals[i]) /\ IsNaN(ret.frame.cols[3].vals[i])

\* the Xingu composer on 31 January and 1 February with a hydrograph that
\* has no row for February
C27_Witness ==
    /\ XinguFeito
    /\ 2 \notin DOMAIN arg.hidrograma.linhas
    /\ \E i \in DOMAIN dados.index :
          /\ Mes(dados.index[i]) = 2
          /\ IsNaN(ret.frame.cols[1].vals[i]) /\ IsNaN(ret.frame.cols[3].vals[i])
    /\ \E i \in DOMAIN dados.index :
          /\ Mes(dados.index[i]) = 1
          /\ ~IsNaN(ret.frame.cols[1].vals[i]) /\ ~IsNaN(ret.frame.cols[3].vals[i])

\* the smaller and the larger of two defined flows
Menor(a, b) == IF Le(a, b) THEN a ELSE b
Maior(a, b) == IF Le(a, b) THEN b ELSE a

\* the bounds of the diversion d and of Pimental Artificial a, on a day with
\* measured Pimental flow p and hydrograph value h
LimitesDoDesvio(p, h, d, a) ==
    /\ Le(R(0), d) /\ Le(d, R(13900))
    /\ Le(d, Maior(R(0), Sub(p, h)))
    /\ a = Menor(p, Maior(h, Sub(p, R(13900))))
    /\ Le(Menor(p, h), a)

\* C28: on every day whose month has the hydrograph value h, the Belo
\* Monte diversion d is between 0 and 13900 and at most max(0, p - h), and
\* Pimental Artificial is min(p, max(h, p - 13900)), so never below
\* min(p, h).
C28_LimitesDoDesvio ==
    XinguFeito =>
        \A i \in DOMAIN dados.index :
            ~SemLinha(arg.hidrograma, i) =>
                LimitesDoDesvio(Coluna(dados, Cod(Codigos.pimental)).vals[i],
                                arg.hidrograma.linhas[Mes(dados.index[i])],
                                ret.frame.cols[1].vals[i],
                                ret.frame.cols[3].vals[i])

\* one day below the hydrograph (nothing diverted) and one day above the
\* hydrograph plus 13900 (the maximum diverted)
C28_Witness ==
    /\ XinguFeito
    /\ \E i \in DOMAIN dados.index :
          /\ ~SemLinha(arg.hidrograma, i)
          /\ Lt(Coluna(dados, Cod(Codigos.pimental)).vals[i],
                arg.hidrograma.linhas[Mes(dados.index[i])])
          /\ ret.frame.cols[1].vals[i] = R(0)
    /\ \E i \in DOMAIN dados.index :
          /\ ~SemLinha(arg.hidrograma, i)
          /\ ret.frame.cols[1].vals[i] = R(13900)
          /\ Gt(ret.frame.cols[3].vals[i], arg.hidrograma.linhas[Mes(dados.index[i])])

\* the outcome of the Iguacu composer: the first column is the Jordao
\* Artificial flow and the third the Segredo Artificial flow
IguacuFeito == pc = "feito" /\ op = "compositor" /\ arg.bacia = "iguacu" /\ ret.erro = ""

\* the amount moved from Jordao to Segredo on a day with Jordao flow j
Transferido(j) == Menor(Sub(j, R(10)), Frac(347, 2))

\* on a day with measured flows j of Jordao and s of Segredo, ja and sa being
\* the two artificial flows: what leaves Jordao enters Segredo
Transfere(j, s, ja, sa) ==
    /\ Add(ja, sa) = Add(j, s)
    /\ Sub(j, ja) = Transferido(j)
    /\ Sub(sa, s) = Transferido(j)
    /\ Lt(j, R(10)) => Lt(Transferido(j), R(0)) /\ ja = R(10)

\* C29: Jordao Artificial plus Segredo Artificial is Jordao plus Segredo:
\* the amount min(Jordao - 10, 173.5) taken from Jordao is the amount added
\* to Segredo, also when Jordao is below 10, where the amount is negative
\* and Jordao Artificial is 10.
C29_Iguacu ==
    IguacuFeito =>
        \A i \in DOMAIN dados.index :
            Transfere(Coluna(dados, Cod(Codigos.jordao)).vals[i],
                      Coluna(dados, Cod(Codigos.segredo)).vals[i],
                      ret.frame.cols[1].vals[i], ret.frame.cols[3].vals[i])

\* a day with Jordao below 10
C29_Witness ==
    /\ IguacuFeito
    /\ \E i \in DOMAIN dados.index :
          /\ Lt(Coluna(dados, Cod(Codigos.jordao)).vals[i], R(10))
          /\ ret.frame.cols[1].vals[i] = R(10)
          /\ Lt(ret.frame.cols[3].vals[i], Coluna(dados, Cod(Codigos.segredo)).vals[i])

LajesFeita ==
    pc = "feito" /\ op = "regra" /\ arg.regra = "LajesArtificial" /\ ret.erro = ""

\* on a day with measured flows t of Tocos and l of Lajes, la being Lajes
\* Artificial and v Vertimento de Tocos: Tocos is split between the two
Reparte(t, l, la, v) ==
    /\ Add(la, v) = Add(l, t)
    /\ v = Maior(R(0), Sub(t, R(25)))
    /\ Le(R(0), v)
    /\ la = Add(l, Menor(t, R(25)))

\* C30: Lajes Artificial plus Vertimento de Tocos is Lajes plus Tocos, with
\* Vertimento de Tocos = max(0, Tocos - 25), never negative, and Lajes
\* Artificial = Lajes + min(Tocos, 25).
C30_LajesTocos ==
    LajesFeita =>
        \A i \in DOMAIN dados.index :
            Reparte(Coluna(dados, Cod(Codigos.tocos)).vals[i],
                    Coluna(dados, Cod(Codigos.lajes)).vals[i],
                    Coluna(ret.frame, Valor).vals[i],
                    ValorDaRegra("VertimentoTocos")[i])

\* a day with Tocos above 25: 25 goes to Lajes and the rest is spilled
C30_Witness ==
    /\ LajesFeita
    /\ \E i \in DOMAIN dados.index :
          /\ Gt(Coluna(dados, Cod(Codigos.tocos)).vals[i], R(25))
          /\ Gt(ValorDaRegra("VertimentoTocos")[i], R(0))
          /\ Coluna(ret.frame, Valor).vals[i]
                 = Add(Coluna(dados, Cod(Codigos.lajes)).vals[i], R(25))

====
